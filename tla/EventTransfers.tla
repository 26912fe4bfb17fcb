---------------------------- MODULE EventTransfers ----------------------------
(***************************************************************************)
(* What the constructors and getters of events do with pointers: the rows  *)
(* of gst_event_constructors.go and gst_event.go (see TransferRows).       *)
(***************************************************************************)
EXTENDS TransferRows

\* NewBufferSizeEvent to NewProtectionEvent.
FlowEvents ==
    Result("object", "full", "full",
      {"NewBufferSizeEvent", "NewCapsEvent", "NewEOSEvent", "NewFlushStartEvent",
       "NewFlushStopEvent", "NewGapEvent", "NewLatencyEvent",
       "NewNavigationEvent", "NewProtectionEvent"})
    \cup Arg("object", "plain", "keeps", {"NewCapsEvent", "NewProtectionEvent"})
    \cup Arg("structure", "plain", "consumes", {"NewNavigationEvent"})
    \cup TempStrings({"NewProtectionEvent"})

\* NewQOSEvent to NewSinkMessageEvent.
SegmentEvents ==
    Result("object", "full", "full",
      {"NewQOSEvent", "NewReconfigureEvent", "NewSeekEvent", "NewSegmentEvent",
       "NewSegmentDoneEvent", "NewSelectStreamsEvent", "NewSinkMessageEvent"})
    \cup Arg("object", "plain", "none", {"NewSelectStreamsEvent"})
    \cup Arg("object", "plain", "keeps", {"NewSinkMessageEvent"})
    \cup Arg("memory", "plain", "keeps", {"NewSegmentEvent"})
    \cup TempStrings({"NewSinkMessageEvent"})

\* Mutant: the event takes the reference of the tag list's wrapper.
StreamEvents_NoRef ==
    Result("object", "full", "full", {"NewTagEvent"})
    \cup Arg("object", "plain", "consumes", {"NewTagEvent"})

\* NewStepEvent to NewCustomEvent.  C consumes the tag list, not the TOC.
StreamEvents ==
    Result("object", "full", "full",
      {"NewStepEvent", "NewStreamCollectionEvent", "NewStreamGroupDoneEvent",
       "NewStreamStartEvent", "NewTagEvent", "NewTOCEvent", "NewTOCSelectEvent",
       "NewCustomEvent"})
    \cup Arg("object", "plain", "keeps", {"NewStreamCollectionEvent", "NewTOCEvent"})
    \cup Arg("object", "ref", "consumes", {"NewTagEvent"})
    \cup Arg("structure", "plain", "consumes", {"NewCustomEvent"})
    \cup TempStrings({"NewStreamStartEvent", "NewTOCSelectEvent"})

\* FromGstEventUnsafeNone to ParseLatency.
EventGetters ==
    Result("object", "full", "full", {"Event.Copy"})
    \cup Result("object", "none", "none", {"Event.ParseCaps"})
    \cup Result("structure", "none", "bare", {"Event.GetStructure"})
    \cup Arg("memory", "plain", "none", {"Event.CopySegment"})
    \cup TempStrings({"Event.HasName"})

\* ParseProtection to ParseStep.
EventParsers ==
    Result("object", "none", "bare", {"Event.ParseProtection"})
    \cup Result("memory", "none", "bare", {"Event.ParseSegment"})
    \cup Result("object", "full", "bare", {"Event.ParseSelectStreams"})
    \cup Result("memory", "full", "freed", {"Event.ParseSelectStreams"})
    \cup Result("object", "full", "handed", {"Event.ParseSinkMessage"})
    \cup TempStrings({"Event.ParseProtection"})
    \cup BorrowedStrings({"Event.ParseProtection"})

\* ParseStream to WritableStructure.
EventStreamParsers ==
    Result("object", "full", "none", {"Event.ParseStream"})
    \cup Result("object", "full", "full",
           {"Event.ParseStreamCollection", "Event.ParseTOC"})
    \cup Result("object", "none", "none", {"Event.ParseTag"})
    \cup Arg("object", "plain", "keeps", {"Event.SetStream"})
    \cup Result("structure", "none", "bare", {"Event.WritableStructure"})
    \cup TempStrings({"Event.ParseStreamStart", "Event.ParseTOCSelect"})
    \cup BorrowedStrings({"Event.ParseStreamStart"})
    \cup Result("memory", "full", "copied", {"Event.ParseTOCSelect"})

EventRows ==
    FlowEvents \cup SegmentEvents \cup StreamEvents
    \cup EventGetters \cup EventParsers \cup EventStreamParsers

\* Where Go and C disagree: structures with two owners, streams with a
\* reference too many, a string nobody frees.
EventDivergent ==
    {<<"NewNavigationEvent", "structure">>, <<"NewCustomEvent", "structure">>,
     <<"Event.ParseSelectStreams", "object">>, <<"Event.ParseStream", "object">>,
     <<"Event.ParseTOCSelect", "memory">>}
=============================================================================
