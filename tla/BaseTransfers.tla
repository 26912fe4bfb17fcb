----------------------------- MODULE BaseTransfers -----------------------------
(***************************************************************************)
(* What the virtual methods of elements and bins, the marshalers and the   *)
(* libraries beside the core do with pointers: gst_element_exports.go,     *)
(* gst_bin_exports.go, gst_wrappers.go, gst_values.go and the packages     *)
(* base, app, audio, video, pbutils, gstsdp, gstwebrtc, gstnet and rtp     *)
(* (see TransferRows).  A trampoline fetches its arguments from C and      *)
(* passes what it returns to C, the row of which is named "<fn>.return".   *)
(* A buffer that create, alloc, generate_output, prepare_output_buffer and *)
(* the clip function return is copied over the struct C passed: no row.    *)
(***************************************************************************)
EXTENDS TransferRows

\* An argument of a trampoline, wrapped for the call.
Lent(what, fns)  == Result(what, "none", "bare", fns)
Given(what, fns) == Result(what, "full", "bare", fns)

\* What a trampoline returns, the pointer of a wrapper.
Returned(what, fns) == Arg(what, "plain", "consumes", fns)

\* goGstElementClassPadAdded to goGstElementClassSetContext.  A requested pad
\* is the element's.
ElementMethods ==
    Lent("object",
      {"goGstElementClassPadAdded", "goGstElementClassPadRemoved",
       "goGstElementClassQuery", "goGstElementClassReleasePad",
       "goGstElementClassRequestNewPad", "goGstElementClassSetBus",
       "goGstElementClassSetClock", "goGstElementClassSetContext"})
    \cup Given("object",
           {"goGstElementClassPostMessage", "goGstElementClassSendEvent"})
    \cup Returned("object", {"goGstElementClassProvideClock.return"})
    \cup Arg("object", "plain", "keeps",
           {"goGstElementClassRequestNewPad.return"})
    \cup BorrowedStrings({"goGstElementClassRequestNewPad"})

BinMethods ==
    Lent("object",
      {"goGstBinAddElement", "goGstBinDeepElementAdded",
       "goGstBinDeepElementRemoved", "goGstBinElementAdded",
       "goGstBinElementRemoved", "goGstBinRemoveElement"})
    \cup Given("object", {"goGstBinHandleMessage"})

\* A value of a GValue stays the value's.
ObjectMarshalers ==
    Lent("object",
      {"marshalGhostPad", "marshalProxyPad", "marshalPad", "marshalMessage",
       "marshalObject", "marshalBus", "marshalElementFactory", "marshalPipeline",
       "marshalPluginFeature", "marshalElement", "marshalBin", "marshalBuffer",
       "marshalCaps"})
    \cup Lent("structure", {"marshalCapsFeatures"})
    \cup Result("object", "none", "none", {"marshalSample"})

ValueFunctions ==
    Result("object", "none", "none", {"ValueGetCaps"})
    \cup Lent("structure", {"ValueGetCapsFeatures"})
    \cup Result("memory", "full", "freed", {"ValueSerialize"})
    \cup TempStrings({"ValueDeserialize"})

\* The buffer is the reference C passes: one is taken and one given back.
CollectFunctions ==
    Result("object", "full", "full",
      {"goGstCollectPadsBufferFunc", "goGstCollectPadsClipFunc"})
    \cup Result("object", "full", "none", {"goGstCollectPadsEventFunc"})
    \cup Result("object", "none", "none", {"goGstCollectPadsQueryFunc"})

CollectDataGetters ==
    Result("object", "none", "none",
      {"CollectData.Collect", "CollectData.Pad", "CollectData.Buffer"})
    \cup Lent("memory", {"CollectData.Segment"})

\* NewCollectPads to ReadBuffer.
CollectPadsRows ==
    Result("object", "full", "full",
      {"NewCollectPads", "CollectPads.ClipRunningTime", "CollectPads.Peek",
       "CollectPads.Pop", "CollectPads.ReadBuffer"})
    \cup Arg("object", "plain", "keeps", {"CollectPads.AddPad"})
    \cup Arg("object", "plain", "consumes",
           {"CollectPads.ClipRunningTime.buf", "CollectPads.EventDefault"})
    \cup Arg("object", "plain", "none", {"CollectPads.QueryDefault"})

\* SetWaiting to TakeBuffer.
CollectPadsLast ==
    Arg("object", "plain", "none", {"CollectPads.SrcEventDefault.pad"})
    \cup Arg("object", "plain", "consumes", {"CollectPads.SrcEventDefault"})
    \cup Result("object", "full", "full", {"CollectPads.TakeBuffer"})

SinkMethods ==
    Given("object", {"goGstBaseSinkEvent", "goGstBaseSinkFixate"})
    \cup Lent("object",
           {"goGstBaseSinkGetCaps", "goGstBaseSinkGetTimes",
            "goGstBaseSinkPrepare", "goGstBaseSinkPrepareList",
            "goGstBaseSinkPreroll", "goGstBaseSinkProposeAllocation"})
    \cup Returned("object",
           {"goGstBaseSinkFixate.return", "goGstBaseSinkGetCaps.return"})

SinkStreamMethods ==
    Lent("object",
      {"goGstBaseSinkQuery", "goGstBaseSinkRender", "goGstBaseSinkRenderList",
       "goGstBaseSinkSetCaps", "goGstBaseSinkWaitEvent"})

SrcMethods ==
    Given("object", {"goGstBaseSrcFixate"})
    \cup Lent("object",
           {"goGstBaseSrcGetCaps", "goGstBaseSrcSetCaps",
            "goGstBaseSrcDecideAllocation", "goGstBaseSrcGetTimes"})
    \cup Returned("object",
           {"goGstBaseSrcGetCaps.return", "goGstBaseSrcFixate.return"})

SrcStreamMethods ==
    Lent("object",
      {"goGstBaseSrcPrepareSeekSegment", "goGstBaseSrcQuery",
       "goGstBaseSrcEvent", "goGstBaseSrcFill"})
    \cup Lent("memory",
           {"goGstBaseSrcPrepareSeekSegment", "goGstBaseSrcDoSeek"})

PushSrcMethods == Lent("object", {"goGstPushSrcFill"})

TransformMethods ==
    Lent("object",
      {"goGstBaseTransformAcceptCaps", "goGstBaseTransformBeforeTransform",
       "goGstBaseTransformCopyMetadata", "goGstBaseTransformDecideAllocation",
       "goGstBaseTransformFilterMeta", "goGstBaseTransformFixateCaps",
       "goGstBaseTransformGetUnitSize", "goGstBaseTransformPrepareOutputBuffer"})
    \cup Lent("structure", {"goGstBaseTransformFilterMeta"})
    \cup Given("object", {"goGstBaseTransformFixateCaps.othercaps"})
    \cup Returned("object", {"goGstBaseTransformFixateCaps.return"})

TransformStreamMethods ==
    Lent("object",
      {"goGstBaseTransformProposeAllocation", "goGstBaseTransformQuery",
       "goGstBaseTransformSetCaps", "goGstBaseTransformTransform",
       "goGstBaseTransformTransformCaps", "goGstBaseTransformTransformIP"})
    \cup Given("object",
           {"goGstBaseTransformSinkEvent", "goGstBaseTransformSrcEvent",
            "goGstBaseTransformSubmitInputBuffer"})
    \cup Returned("object", {"goGstBaseTransformTransformCaps.return"})

TransformLast ==
    Lent("object",
      {"goGstBaseTransformTransformMeta", "goGstBaseTransformTransformSize"})

LastSamples == Result("object", "full", "full", {"GstBaseSink.GetLastSample"})

\* The methods of the parent take what the trampoline was given.
ParentEvents == Arg("object", "plain", "consumes", {"GstBaseSink.ParentEvent"})

BaseSrcGetters ==
    Result("object", "full", "full",
      {"GstBaseSrc.GetAllocator", "GstBaseSrc.GetBufferPool"})

BaseSrcRows ==
    Arg("object", "plain", "none", {"GstBaseSrc.SetCaps"})
    \cup Arg("object", "plain", "consumes", {"GstBaseSrc.SubmitBufferList"})

BaseTransformGetters ==
    Result("object", "full", "full",
      {"GstBaseTransform.GetAllocator", "GstBaseTransform.GetBufferPool"})
    \cup Result("object", "none", "none", {"GstBaseTransform.QueuedBuffer"})

BaseTransformRows ==
    Result("object", "none", "none",
      {"GstBaseTransform.SinkPad", "GstBaseTransform.SrcPad"})
    \cup Arg("object", "plain", "none", {"GstBaseTransform.UpdateSrcCaps"})
    \cup Arg("object", "plain", "consumes",
           {"GstBaseTransform.ParentSrcEvent", "GstBaseTransform.ParentSinkEvent"})

FlowCombinerRows ==
    Result("memory", "full", "handed", {"NewFlowCombiner", "FlowCombiner.Ref"})
    \cup Arg("object", "plain", "keeps", {"FlowCombiner.AddPad"})
    \cup Arg("object", "plain", "none",
           {"FlowCombiner.RemovePad", "FlowCombiner.UpdatePadFlow"})

TypeFindRows ==
    Result("object", "full", "full",
      {"TypeFindHelper", "TypeFindHelperForBuffer",
       "TypeFindHelperForBufferWithExtension", "TypeFindHelperForData",
       "TypeFindHelperForDataWithExtension", "TypeFindHelperForExtension"})
    \cup Arg("object", "plain", "none",
           {"TypeFindHelper.pad", "TypeFindHelperForBuffer.buffer",
            "TypeFindHelperForBufferWithExtension.buffer"})
    \cup TempStrings({"TypeFindHelperForBufferWithExtension",
           "TypeFindHelperForDataWithExtension", "TypeFindHelperForExtension"})

AppCaps ==
    Result("object", "full", "full", {"Sink.GetCaps", "Source.GetCaps"})

AppSinkRows ==
    Result("object", "full", "full", {"Sink.PullPreroll", "Sink.PullSample"})
    \cup Arg("object", "plain", "keeps", {"Sink.SetCaps"})

AppSinkTries ==
    Result("object", "full", "full", {"Sink.TryPullPreroll", "Sink.TryPullSample"})

AppSrcRows ==
    Arg("object", "ref", "consumes",
           {"Source.PushBuffer", "Source.PushBufferList"})
    \cup Arg("object", "plain", "none", {"Source.PushSample"})
    \cup Arg("object", "plain", "keeps", {"Source.SetCaps"})

\* A mapped buffer stays the buffer's.
AudioBuffers ==
    Arg("object", "ref", "consumes", {"audio.ClipBuffer", "audio.TruncateBuffer"})
    \cup Result("object", "full", "full",
           {"audio.ClipBuffer.result", "audio.TruncateBuffer.result"})
    \cup Arg("object", "plain", "none",
           {"audio.ReorderChannels", "audio.MapBuffer"})

AudioChannels == Result("memory", "full", "freed", {"ChannelPositionsToString"})

AudioFormats ==
    BorrowedStrings({"audio.FormatInfo.Name", "audio.FormatInfo.Description",
                     "audio.Format.String", "audio.RawFormats"})
    \cup Lent("memory", {"audio.Format.Info"})
    \cup TempStrings({"audio.FormatFromString"})
    \cup Result("object", "full", "full", {"audio.MakeRawCaps"})

AudioInfos ==
    Result("memory", "full", "full", {"audio.NewInfo", "audio.Info.Copy"})
    \cup Arg("object", "plain", "none", {"audio.InfoFromCaps"})
    \cup Lent("memory", {"audio.Info.FormatInfo"})
    \cup Result("object", "full", "full", {"audio.Info.ToCaps"})

Conversions ==
    Arg("object", "plain", "none",
      {"video.ConvertSample", "video.ConvertSampleAsync"})
    \cup Result("object", "full", "full", {"video.ConvertSample.result"})
    \cup Result("memory", "full", "freed", {"video.ConvertSample"})

\* The callback owns the sample and the error.
ConversionResults ==
    Result("object", "full", "full", {"goVideoConvertSampleCb"})
    \cup Result("memory", "full", "freed", {"goVideoConvertSampleCb"})

VideoInfos ==
    Result("memory", "full", "full", {"video.NewInfo"})
    \cup Arg("object", "plain", "none", {"video.Info.FromCaps"})

VideoInfoCaps == Result("object", "full", "full", {"video.Info.ToCaps"})

\* The information on a format is a table of C, and is freed.
VideoFormats ==
    Result("object", "full", "full",
      {"video.MakeRawCaps", "video.MakeRawCapsWithFeatures"})
    \cup Result("memory", "none", "full", {"video.Format.Info"})
    \cup BorrowedStrings({"video.RawFormats", "video.Format.Palette",
                          "video.Format.String"})

\* So is the name of a site.
ChromaRows ==
    Result("memory", "none", "freed", {"ChromaSite.String"})
    \cup Result("memory", "full", "full", {"NewChromaResample"})

NavigationRows ==
    Arg("structure", "plain", "consumes", {"Navigation.SendEvent"})
    \cup TempStrings({"Navigation.SendKeyEvent", "Navigation.SendMouseEvent"})

\* The channel itself is a value of Go.
BalanceRows ==
    TempStrings({"ColorBalance.GetValue", "ColorBalance.SetValue"})
    \cup BorrowedStrings({"ColorBalance.ListChannels"})

DiscovererRows ==
    Result("object", "full", "full",
      {"NewDiscoverer", "Discoverer.DiscoverURI", "DiscovererInfo.Copy"})
    \cup Result("memory", "full", "freed",
           {"NewDiscoverer", "Discoverer.DiscoverURI"})
    \cup TempStrings({"Discoverer.DiscoverURI.uri"})

InfoGetters ==
    Given("object", {"DiscovererInfo.GetStreamInfo"})
    \cup Result("object", "none", "none",
           {"DiscovererInfo.GetTags", "DiscovererInfo.GetTOC"})
    \cup BorrowedStrings({"DiscovererInfo.GetURI"})

StreamInfoGetters ==
    Result("object", "full", "full", {"DiscovererStreamInfo.GetCaps"})
    \cup Result("object", "none", "none",
           {"DiscovererStreamInfo.GetTags", "DiscovererStreamInfo.GetTOC"})
    \cup BorrowedStrings(
           {"DiscovererStreamInfo.GetStreamID",
            "DiscovererStreamInfo.GetStreamTypeNick"})

\* A list is freed with its references, and each element's wrapper has a
\* finalizer that gives one back.
StreamLists ==
    Result("object", "none", "full",
      {"glistToStreamInfoSlice", "glistToAudioInfoSlice",
       "glistToVideoInfoSlice", "glistToContainerInfoSlice",
       "glistToSubtitleInfoSlice"})

SDPMessages ==
    Result("memory", "full", "full", {"NewMessage", "ParseSDPMessage"})
    \cup Result("memory", "full", "freed", {"Message.String"})
    \cup Result("memory", "full", "handed", {"Message.UnownedCopy"})
    \cup Result("memory", "none", "kept", {"Message.Media"})
    \cup TempStrings({"ParseSDPMessage"})

SDPMedia ==
    BorrowedStrings({"Media.Format"})
    \cup Result("object", "full", "full", {"Media.GetCaps"})

SessionDescriptions ==
    Arg("memory", "copy", "consumes", {"NewSessionDescription"})
    \cup Result("memory", "full", "full",
           {"NewSessionDescription", "SessionDescription.Copy"})
    \cup Result("memory", "full", "handed", {"SessionDescription.UnownedCopy"})
    \cup Arg("memory", "plain", "keeps", {"SessionDescription.ToGValue"})
    \cup Result("memory", "none", "copied", {"marshalSessionDescription"})
    \cup Result("memory", "none", "kept", {"SessionDescription.SDP"})

DataChannels ==
    Arg("memory", "temp", "keeps", {"DataChannel.SendData"})
    \cup Result("memory", "full", "freed", {"DataChannel.SendData"})
    \cup Arg("object", "plain", "keeps", {"DataChannel.ToGValue"})
    \cup Result("object", "none", "none", {"marshalDataChannel"})

Transceivers ==
    Arg("object", "plain", "keeps", {"RTPTransceiver.ToGValue"})
    \cup Result("object", "none", "none", {"marshalRTPTransceiver"})

NTPClocks ==
    Result("object", "full", "full", {"ObtainNTPClock"})
    \cup TempStrings({"ObtainNTPClock"})

\* The meta takes a reference of its own to the address.
NetAddresses ==
    Given("object", {"AddNetAddressMeta.gaddr"})
    \cup TempStrings({"AddNetAddressMeta"})
    \cup Arg("object", "plain", "none", {"AddNetAddressMeta", "GetNetAddressMeta"})
    \cup Lent("memory", {"AddNetAddressMeta", "GetNetAddressMeta"})
    \cup Result("memory", "full", "freed", {"NetAddressMeta.Addr"})

SourceMetas ==
    Arg("object", "plain", "none", {"GetSourceMeta", "AddSourceMeta"})
    \cup Lent("memory", {"GetSourceMeta", "AddSourceMeta"})

MethodRows ==
    ElementMethods \cup BinMethods \cup CollectFunctions \cup SinkMethods
    \cup SinkStreamMethods \cup SrcMethods \cup SrcStreamMethods
    \cup PushSrcMethods \cup TransformMethods \cup TransformStreamMethods
    \cup TransformLast

BaseClassRows ==
    CollectDataGetters \cup CollectPadsRows \cup CollectPadsLast
    \cup LastSamples \cup ParentEvents \cup BaseSrcGetters \cup BaseSrcRows
    \cup BaseTransformGetters
    \cup BaseTransformRows \cup FlowCombinerRows \cup TypeFindRows
    \cup AppCaps \cup AppSinkRows \cup AppSinkTries \cup AppSrcRows

LibraryRows ==
    AudioBuffers \cup AudioChannels \cup AudioFormats \cup AudioInfos
    \cup Conversions \cup ConversionResults \cup VideoInfos \cup VideoInfoCaps
    \cup VideoFormats \cup ChromaRows \cup NavigationRows \cup BalanceRows
    \cup DiscovererRows \cup InfoGetters \cup StreamInfoGetters
    \cup StreamLists \cup SDPMessages \cup SDPMedia \cup SessionDescriptions
    \cup DataChannels \cup Transceivers \cup NTPClocks \cup NetAddresses
    \cup SourceMetas

BaseRows ==
    ObjectMarshalers \cup ValueFunctions \cup MethodRows \cup BaseClassRows
    \cup LibraryRows

\* Where Go and C disagree: what a method was given is not released, what it
\* returns or passes on keeps its finalizer, references of lists are given back
\* twice, tables of C are freed, an address is not unreferenced.
BaseDivergent ==
    {<<"Navigation.SendEvent", "structure">>,
     <<"video.Format.Info", "memory">>, <<"ChromaSite.String", "memory">>}
    \cup ({"goGstElementClassPostMessage", "goGstElementClassSendEvent",
           "goGstElementClassProvideClock.return", "goGstBinHandleMessage",
           "goGstCollectPadsEventFunc", "CollectPads.ClipRunningTime.buf",
           "CollectPads.EventDefault", "CollectPads.SrcEventDefault",
           "goGstBaseSinkEvent", "goGstBaseSinkFixate",
           "goGstBaseSinkFixate.return", "goGstBaseSinkGetCaps.return",
           "goGstBaseSrcFixate", "goGstBaseSrcGetCaps.return",
           "goGstBaseSrcFixate.return", "goGstBaseTransformFixateCaps.othercaps",
           "goGstBaseTransformFixateCaps.return", "goGstBaseTransformSinkEvent",
           "goGstBaseTransformSrcEvent", "goGstBaseTransformSubmitInputBuffer",
           "goGstBaseTransformTransformCaps.return",
           "GstBaseSink.ParentEvent", "GstBaseSrc.SubmitBufferList",
           "GstBaseTransform.ParentSrcEvent", "GstBaseTransform.ParentSinkEvent",
           "DiscovererInfo.GetStreamInfo", "glistToStreamInfoSlice",
           "glistToAudioInfoSlice", "glistToVideoInfoSlice",
           "glistToContainerInfoSlice", "glistToSubtitleInfoSlice",
           "AddNetAddressMeta.gaddr"} \X {"object"})
=============================================================================
