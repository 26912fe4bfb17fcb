---------------------------- MODULE ObjectTransfers ----------------------------
(***************************************************************************)
(* What elements, bins, pipelines, factories and classes, and the objects  *)
(* they derive from, do with pointers: the rows of gst_element.go,         *)
(* gst_element_class.go, gst_element_factory.go, gst_bin.go,               *)
(* gst_pipeline.go, gst_object.go, control_binding.go, control_source.go,  *)
(* gst_child_proxy.go and gst_uri_handler.go (see TransferRows).  A parent *)
(* holds its children.                                                     *)
(***************************************************************************)
EXTENDS TransferRows

\* RegisterElement to PostMessage.  C copies the name of an element type.
ElementMessages ==
    Arg("object", "plain", "keeps", {"Element.AddPad"})
    \cup Arg("object", "ref", "consumes", {"Element.PostMessage"})
    \cup Arg("memory", "made", "none", {"RegisterElement"})

\* MessageFull to GetStaticPad.  C takes over the texts of a message, not its
\* file and function.  An iterator lends each pad for a round, and is freed after
\* the last.
ElementGetters ==
    Result("object", "full", "full",
      {"Element.GetBus", "Element.GetClock", "Element.GetStaticPad"})
    \cup Result("object", "none", "bare",
           {"Element.GetFactory", "Element.GetPadTemplates"})
    \cup Result("object", "none", "none",
           {"Element.GetPads", "Element.GetSinkPads", "Element.GetSrcPads"})
    \cup Result("memory", "full", "freed",
           {"Element.GetPads", "Element.GetSinkPads", "Element.GetSrcPads"})
    \cup Arg("memory", "made", "consumes", {"Element.MessageFull.text"})
    \cup Arg("memory", "made", "none", {"Element.MessageFull.place"})
    \cup TempStrings({"Element.MessageFull", "Element.GetStaticPad"})

\* Link to SendEvent.
ElementLinks ==
    Arg("object", "plain", "none",
      {"Element.Link", "Element.Unlink", "Element.LinkFiltered",
       "Element.Query"})
    \cup Arg("object", "ref", "consumes",
           {"Element.ParentSendEvent", "Element.SendEvent"})
    \cup Arg("object", "plain", "consumes", {"Element.ParentPostMessage"})

\* URIHandler to ToGValue.
ElementPads ==
    Arg("object", "plain", "none", {"Element.RemovePad", "Element.ReleaseRequestPad"})
    \cup Arg("object", "plain", "keeps", {"Element.ToGValue"})
    \cup Result("object", "full", "full", {"Element.GetRequestPad"})
    \cup TempStrings({"Element.GetRequestPad"})

\* A static string of the class is C's, a key is copied, and so are the
\* caps and the string of a static pad template.
ClassRows ==
    Arg("memory", "made", "consumes",
      {"ElementClass.AddMetadata", "ElementClass.SetMetadata"})
    \cup Arg("memory", "made", "none",
           {"ElementClass.AddMetadata.key", "ElementClass.AddStaticPadTemplate"})
    \cup Arg("object", "plain", "keeps", {"ElementClass.AddPadTemplate"})
    \cup Arg("object", "ref", "keeps", {"ElementClass.AddStaticPadTemplate"})
    \cup Result("object", "none", "none",
           {"ElementClass.GetPadTemplate", "ElementClass.GetAllPadTemplates"})
    \cup Result("memory", "none", "freed", {"ElementClass.GetAllPadTemplates"})
    \cup TempStrings({"ElementClass.GetMetadata", "ElementClass.GetPadTemplate"})
    \cup BorrowedStrings({"ElementClass.GetMetadata"})

FactoryRows ==
    Result("object", "floating", "none",
      {"NewElementWithName", "NewElementWithProperties"})
    \cup Result("object", "full", "full", {"Find"})
    \cup Arg("object", "plain", "none",
           {"ElementFactory.CanSinkAllCaps", "ElementFactory.CanSinkAnyCaps",
            "ElementFactory.CanSourceAllCaps", "ElementFactory.CanSourceAnyCaps"})
    \cup TempStrings({"NewElementWithName", "NewElementWithProperties", "Find",
                      "ElementFactory.GetMetadata"})
    \cup Result("memory", "none", "freed", {"ElementFactory.GetMetadata"})
    \cup Result("memory", "full", "freed", {"ElementFactory.GetMetadataKeys"})

\* NewBin to GetAllByInterface.
BinGetters ==
    Result("object", "floating", "none", {"NewBin", "NewBinFromString"})
    \cup Result("object", "full", "full",
           {"Bin.GetElementByName", "Bin.GetElementByNameRecursive",
            "Bin.GetByInterface"})
    \cup Result("object", "none", "none",
           {"Bin.GetElements", "Bin.GetElementsRecursive",
            "Bin.GetSourceElements", "Bin.GetSinkElements",
            "Bin.GetElementsSorted", "Bin.GetAllByInterface"})
    \cup Result("memory", "full", "freed",
           {"NewBinFromString", "Bin.GetElements", "Bin.GetElementsRecursive",
            "Bin.GetSourceElements", "Bin.GetSinkElements",
            "Bin.GetElementsSorted", "Bin.GetAllByInterface"})
    \cup TempStrings({"NewBin", "NewBinFromString", "Bin.GetElementByName",
                      "Bin.GetElementByNameRecursive"})

\* Add to DebugBinToDotFileWithTs.
BinChildren ==
    Arg("object", "plain", "keeps", {"Bin.Add"})
    \cup Arg("object", "plain", "none", {"Bin.Remove"})
    \cup Result("object", "full", "full", {"Bin.FindUnlinkedPad"})
    \cup Result("memory", "full", "freed", {"Bin.DebugBinToDotData"})
    \cup TempStrings({"Bin.DebugBinToDotFile", "Bin.DebugBinToDotFileWithTs"})

\* iteratorToElementSlice to ParentRemoveElement.  An iterator that fails is
\* not freed.
BinParents ==
    Arg("object", "plain", "keeps", {"Bin.ParentAddElement"})
    \cup Arg("object", "plain", "none",
           {"Bin.ParentDeepElementAdded", "Bin.ParentDeepElementRemoved",
            "Bin.ParentElementAdded", "Bin.ParentElementRemoved",
            "Bin.ParentRemoveElement"})
    \cup Arg("object", "plain", "consumes", {"Bin.ParentHandleMessage"})
    \cup Result("memory", "full", "bare", {"iteratorToElementSlice.failed"})

PipelineRows ==
    Result("object", "floating", "none", {"NewPipeline", "NewPipelineFromString"})
    \cup Result("memory", "full", "freed", {"NewPipelineFromString"})
    \cup Result("object", "full", "full",
           {"Pipeline.GetPipelineBus", "Pipeline.GetPipelineClock"})
    \cup Arg("object", "plain", "keeps", {"Pipeline.ForceClock"})
    \cup TempStrings({"NewPipeline", "NewPipelineFromString"})

\* GetParent to SetArg.  glib.Take sinks or takes a reference.
GstObjectRows ==
    Result("memory", "full", "freed", {"Object.GetName"})
    \cup Result("object", "full", "none", {"Object.GetParent"})
    \cup Result("memory", "full", "bare", {"Object.GetValue"})
    \cup Arg("object", "plain", "keeps",
           {"Object.SetParent", "Object.AddControlBinding"})
    \cup Arg("object", "plain", "none", {"Object.RemoveControlBinding"})
    \cup TempStrings({"Object.GetValue", "Object.SetName", "Object.SetArg"})

ControlRows ==
    Result("object", "floating", "none", {"NewDirectControlBinding"})
    \cup Arg("object", "plain", "none", {"NewDirectControlBinding.object"})
    \cup Arg("object", "plain", "keeps", {"NewDirectControlBinding.source"})
    \cup TempStrings({"NewDirectControlBinding"})

ControlSources ==
    Result("object", "full", "full", {"NewInterpolationControlSource"})

\* A child proxy borrows a child for a signal and returns references.
ChildProxyRows ==
    Arg("object", "plain", "none",
      {"ChildProxy.ChildAdded", "ChildProxy.ChildRemoved"})
    \cup Arg("memory", "plain", "none", {"ChildProxy.SetProperty"})
    \cup Result("object", "full", "full",
           {"ChildProxy.GetChildByIndex", "ChildProxy.GetChildByName",
            "ChildProxy.Lookup"})
    \cup Result("object", "none", "bare", {"ChildProxy.Lookup.param"})
    \cup TempStrings(
           {"ChildProxy.ChildAdded", "ChildProxy.ChildRemoved",
            "ChildProxy.GetChildByName", "ChildProxy.GetProperty",
            "ChildProxy.Lookup", "ChildProxy.SetProperty"})

\* The children that a Go implementation returns.
ChildProxyExports ==
    Arg("object", "plain", "consumes",
      {"goGstChildProxyGetChildByIndex", "goGstChildProxyGetChildByName"})
    \cup Result("object", "none", "bare",
           {"goGstChildProxyChildAdded", "goGstChildProxyChildRemoved"})
    \cup BorrowedStrings(
           {"goGstChildProxyChildAdded", "goGstChildProxyChildRemoved",
            "goGstChildProxyGetChildByName"})

\* The strings that a Go implementation returns.
URIHandlerExports ==
    Arg("memory", "made", "consumes", {"goURIHdlrGetURI"})
    \cup Arg("memory", "made", "none", {"goURIHdlrGetProtocols"})
    \cup TempStrings({"goURIHdlrSetURI"})
    \cup BorrowedStrings({"goURIHdlrSetURI"})

URIHandlerRows ==
    Result("memory", "full", "freed", {"URIHandler.GetURI", "URIHandler.SetURI"})
    \cup BorrowedStrings({"URIHandler.GetProtocols"})
    \cup TempStrings({"URIHandler.SetURI"})

ObjectRows ==
    ElementMessages \cup ElementGetters \cup ElementLinks \cup ElementPads
    \cup ClassRows \cup FactoryRows \cup BinGetters \cup BinChildren
    \cup BinParents \cup PipelineRows \cup GstObjectRows \cup ControlRows
    \cup ControlSources \cup ChildProxyRows \cup ChildProxyExports
    \cup URIHandlerRows \cup URIHandlerExports

\* Where Go and C disagree: messages and children of which C takes the only
\* reference, a parent with a reference too many, a list and a string freed
\* that belong to C, names and iterators that nobody frees.
ObjectDivergent ==
    ({"Element.ParentPostMessage", "Bin.ParentHandleMessage", "Object.GetParent",
      "ElementClass.AddStaticPadTemplate", "goGstChildProxyGetChildByIndex",
      "goGstChildProxyGetChildByName"} \X {"object"})
    \cup ({"RegisterElement", "Element.MessageFull.place",
           "ElementClass.AddMetadata.key", "ElementClass.AddStaticPadTemplate",
           "ElementClass.GetAllPadTemplates", "ElementFactory.GetMetadata",
           "iteratorToElementSlice.failed", "Object.GetValue",
           "goURIHdlrGetProtocols"} \X {"memory"})
=============================================================================
