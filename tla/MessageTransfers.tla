--------------------------- MODULE MessageTransfers ---------------------------
(***************************************************************************)
(* What the constructors and getters of messages do with pointers: the     *)
(* rows of gst_message_constructors.go and gst_message.go (see             *)
(* TransferRows).  Every constructor keeps a reference to the source.      *)
(***************************************************************************)
EXTENDS TransferRows

NewMessages(fns) ==
    Result("object", "full", "full", fns) \cup Arg("object", "plain", "keeps", fns)

\* getMessageSourceObj and NewApplicationMessage to NewDurationChangedMessage.
ClockAndDeviceMessages ==
    NewMessages(
      {"NewApplicationMessage", "NewAsyncDoneMessage", "NewAsyncStartMessage",
       "NewBufferingMessage", "NewClockLostMessage", "NewClockProvideMessage",
       "NewCustomMessage", "NewDeviceAddedMessage", "NewDeviceChangedMessage",
       "NewDeviceRemovedMessage", "NewDurationChangedMessage"})
    \cup Arg("structure", "plain", "consumes",
           {"NewApplicationMessage", "NewCustomMessage"})

\* NewElementMessage to NewPropertyNotifyMessage.
ErrorMessages ==
    NewMessages(
      {"NewElementMessage", "NewEOSMessage", "NewErrorMessage",
       "NewHaveContextMessage", "NewInfoMessage", "NewLatencyMessage",
       "NewNeedContextMessage", "NewNewClockMessage", "NewProgressMessage",
       "NewPropertyNotifyMessage"})
    \cup Arg("object", "ref", "consumes", {"NewHaveContextMessage.ctx"})
    \cup Arg("structure", "plain", "consumes",
           {"NewElementMessage", "NewErrorMessage", "NewInfoMessage"})
    \cup TempStrings({"NewErrorMessage", "NewInfoMessage"})
    \cup Arg("memory", "made", "none",
           {"NewNeedContextMessage", "NewProgressMessage",
            "NewPropertyNotifyMessage"})

\* NewQoSMessage to NewStateDirtyMessage.
RedirectMessages ==
    NewMessages(
      {"NewQoSMessage", "NewRedirectMessage", "NewRequestStateMessage",
       "NewResetTimeMessage", "NewSegmentDoneMessage", "NewSegmentStartMessage",
       "NewStateChangedMessage", "NewStateDirtyMessage"})
    \cup Arg("object", "ref", "consumes",
           {"NewRedirectMessage.tagList", "Message.AddRedirectEntry"})
    \cup Arg("structure", "plain", "consumes",
           {"NewRedirectMessage", "Message.AddRedirectEntry"})
    \cup TempStrings({"NewRedirectMessage", "Message.AddRedirectEntry"})

\* NewStepDoneMessage to NewWarningMessage.
StreamMessages ==
    NewMessages(
      {"NewStepDoneMessage", "NewStepStartMessage", "NewStreamCollectionMessage",
       "NewStreamStartMessage", "NewStreamStatusMessage",
       "NewStreamSelectedMessage", "NewStructureChangeMessage", "NewTagMessage",
       "NewTOCMessage", "NewWarningMessage"})
    \cup Arg("object", "plain", "keeps", {"Message.StreamsSelectedAdd"})
    \cup Result("object", "full", "full", {"Message.StreamsSelectedGetStream"})
    \cup Arg("object", "ref", "consumes", {"NewTagMessage.tagList"})
    \cup Arg("structure", "plain", "consumes", {"NewWarningMessage"})
    \cup Result("object", "full", "bare", {"NewWarningMessage.details"})
    \cup TempStrings({"NewWarningMessage"})

\* FromGstMessageUnsafeNone to ParseStateChanged.  The structure and the error
\* are copies.
MessageGetters ==
    Result("object", "full", "full", {"Message.Copy"})
    \cup Result("object", "none", "none", {"Message.SourceObject"})
    \cup BorrowedStrings({"Message.Source", "Message.TypeName"})
    \cup Result("structure", "none", "copied", {"Message.GetStructure"})
    \cup Result("structure", "full", "full", {"Message.GetStructure"})
    \cup Result("memory", "full", "freed", {"Message.parseToError"})

\* Mutant: a reference is taken on a tag list that already is the caller's.
MessageParsers_Ref ==
    Result("object", "full", "none", {"Message.ParseTags"})
    \cup Result("object", "none", "none", {"Message.ParseStreamStatus"})

\* ParseTags to ParseStepDone.
MessageParsers ==
    Result("object", "full", "full", {"Message.ParseTags", "Message.ParseTOC"})
    \cup Result("object", "none", "none", {"Message.ParseStreamStatus"})

\* ParseNewClock to ParseDeviceAdded.  ParseClockProvide wraps its own result
\* variable, which is still nil.
MessageClockParsers ==
    Result("object", "none", "none", {"Message.ParseNewClock"})
    \cup Result("object", "none", "bare", {"Message.ParseStructureChange"})
    \cup TempStrings({"Message.ParseProgress"})
    \cup Result("memory", "full", "copied", {"Message.ParseProgress"})
    \cup Result("object", "full", "full", {"Message.ParseDeviceAdded"})

\* ParseDeviceRemoved to ParseHaveContext.
MessageObjectParsers ==
    Result("object", "full", "full",
      {"Message.ParseDeviceRemoved", "Message.ParseDeviceChanged",
       "Message.ParseStreamCollection", "Message.ParseStreamsSelected",
       "Message.ParseHaveContext"})
    \cup Result("object", "none", "bare", {"Message.ParsePropertyNotify"})
    \cup Result("object", "none", "none", {"Message.ParseRedirectEntryAt"})
    \cup Result("structure", "none", "bare", {"Message.ParseRedirectEntryAt"})
    \cup TempStrings({"Message.ParsePropertyNotify", "Message.ParseRedirectEntryAt"})
    \cup BorrowedStrings(
           {"Message.ParsePropertyNotify", "Message.ParseRedirectEntryAt"})

MessageRows ==
    ClockAndDeviceMessages \cup ErrorMessages \cup RedirectMessages
    \cup StreamMessages \cup MessageGetters \cup MessageParsers
    \cup MessageClockParsers \cup MessageObjectParsers

\* Where Go and C disagree: structures with two owners, strings and a message
\* nobody frees.
MessageDivergent ==
    ({"NewApplicationMessage", "NewCustomMessage", "NewElementMessage",
      "NewErrorMessage", "NewInfoMessage", "NewWarningMessage",
      "NewRedirectMessage", "Message.AddRedirectEntry"} \X {"structure"})
    \cup ({"NewNeedContextMessage", "NewProgressMessage",
           "NewPropertyNotifyMessage", "Message.ParseProgress"} \X {"memory"})
    \cup {<<"NewWarningMessage.details", "object">>}
=============================================================================
