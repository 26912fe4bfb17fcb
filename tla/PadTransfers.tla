----------------------------- MODULE PadTransfers -----------------------------
(***************************************************************************)
(* What pads, ghost pads and pad templates do with pointers: the rows of   *)
(* gst_pad.go, gst_ghost_pad.go and gst_pad_template.go (see               *)
(* TransferRows).  A pad holds its caps, its template and its peer.  The   *)
(* functions that set callbacks are in PadFuncs.                           *)
(***************************************************************************)
EXTENDS TransferRows

\* NewPad to CurrentCaps.
NewPads ==
    Result("object", "floating", "none", {"NewPad", "NewPadFromTemplate"})
    \cup Arg("object", "plain", "keeps", {"NewPadFromTemplate"})
    \cup Result("object", "none", "bare", {"Pad.Template"})
    \cup Result("object", "full", "full", {"Pad.CurrentCaps"})
    \cup TempStrings({"NewPad", "NewPadFromTemplate"})

\* CanLink to GetPadTemplateCaps.
PadChain ==
    Arg("object", "plain", "none",
      {"Pad.CanLink", "Pad.CreateStreamID", "Pad.EventDefault.parent"})
    \cup Arg("object", "ref", "consumes",
           {"Pad.Chain", "Pad.ChainList", "Pad.EventDefault"})
    \cup Result("memory", "full", "freed", {"Pad.CreateStreamID"})
    \cup Result("object", "full", "full",
           {"Pad.GetAllowedCaps", "Pad.GetCurrentCaps", "Pad.GetPadTemplate",
            "Pad.GetPadTemplateCaps"})
    \cup TempStrings({"Pad.CreateStreamID"})

\* GetParentElement to GetInternalLinksDefault.  A range is a new buffer, or the
\* one that was passed, filled.
PadGetters ==
    Result("object", "full", "full",
      {"Pad.GetParentElement", "Pad.GetPeer", "Pad.GetStickyEvent"})
    \cup Arg("object", "plain", "none",
           {"Pad.GetRange", "Pad.GetInternalLinksDefault"})
    \cup Result("object", "full", "handed", {"Pad.GetRange"})
    \cup Result("object", "none", "bare", {"Pad.GetRange.filled"})
    \cup Result("object", "full", "none", {"Pad.GetStream"})
    \cup Result("object", "none", "none",
           {"Pad.GetInternalLinks", "Pad.GetInternalLinksDefault"})
    \cup Result("memory", "full", "freed",
           {"Pad.GetStreamID", "Pad.GetInternalLinks",
            "Pad.GetInternalLinksDefault"})

\* Link to PullRange.
PadLinks ==
    Arg("object", "plain", "none",
      {"Pad.Link", "Pad.LinkFull", "Pad.LinkMaybeGhosting",
       "Pad.LinkMaybeGhostingFull", "Pad.PeerQuery", "Pad.PeerQueryAcceptCaps",
       "Pad.PeerQueryCaps", "Pad.ProxyQueryAcceptCaps", "Pad.ProxyQueryCaps",
       "Pad.PullRange"})
    \cup Result("object", "full", "full", {"Pad.PeerQueryCaps", "Pad.PullRange"})
    \cup Result("object", "none", "full", {"Pad.PullRange.filled"})

\* Push to SendEvent.
PadPush ==
    Arg("object", "ref", "consumes",
      {"Pad.Push", "Pad.PushEvent", "Pad.PushList", "Pad.SendEvent"})
    \cup Arg("object", "plain", "none",
           {"Pad.Query", "Pad.QueryAcceptCaps", "Pad.QueryCaps",
            "Pad.QueryDefault"})
    \cup Result("object", "full", "full", {"Pad.QueryCaps"})

\* StoreStickyEvent to iteratorToPadSlice.  What a probe sees is lent to it.
PadProbes ==
    Arg("object", "plain", "keeps", {"Pad.StoreStickyEvent", "Pad.ToGValue"})
    \cup Arg("object", "plain", "none", {"Pad.Unlink"})
    \cup Result("object", "none", "none", {"PadProbeInfo.GetEvent"})
    \cup Result("object", "none", "bare",
           {"PadProbeInfo.GetBuffer", "PadProbeInfo.GetBufferList",
            "PadProbeInfo.GetQuery"})
    \cup Result("memory", "full", "bare", {"iteratorToPadSlice.failed"})

\* NewGhostPad to NewGhostPadNoTargetFromTemplate.
NewGhostPads ==
    Result("object", "floating", "none",
      {"NewGhostPad", "NewGhostPadFromTemplate", "NewGhostPadNoTarget",
       "NewGhostPadNoTargetFromTemplate"})
    \cup Arg("object", "plain", "keeps",
           {"NewGhostPad", "NewGhostPadFromTemplate",
            "NewGhostPadNoTargetFromTemplate"})
    \cup TempStrings(
           {"NewGhostPad", "NewGhostPadFromTemplate", "NewGhostPadNoTarget",
            "NewGhostPadNoTargetFromTemplate"})

\* GetTarget to GetInternalLinksDefault.
GhostPadRows ==
    Result("object", "full", "full",
      {"GhostPad.GetTarget", "ProxyPad.GetInternal", "ProxyPad.GetRangeDefault"})
    \cup Arg("object", "plain", "keeps", {"GhostPad.SetTarget"})
    \cup Arg("object", "plain", "none",
           {"GhostPad.ActivateModeDefault", "GhostPad.InternalActivateModeDefault",
            "ProxyPad.GetInternalLinksDefault"})
    \cup Arg("object", "plain", "consumes",
           {"ProxyPad.ChainDefault", "ProxyPad.ChainListDefault"})
    \cup Result("object", "none", "none", {"ProxyPad.GetInternalLinksDefault"})
    \cup Result("memory", "full", "freed", {"ProxyPad.GetInternalLinksDefault"})

PadTemplateRows ==
    Result("object", "floating", "none",
      {"NewPadTemplate", "NewPadTemplateWithGType"})
    \cup Arg("object", "plain", "keeps",
           {"NewPadTemplate", "NewPadTemplateWithGType"})
    \cup Result("object", "full", "full", {"PadTemplate.Caps"})
    \cup Arg("object", "plain", "none", {"PadTemplate.PadCreated"})
    \cup TempStrings({"NewPadTemplate", "NewPadTemplateWithGType"})
    \cup BorrowedStrings({"PadTemplate.Name"})

PadRows ==
    NewPads \cup PadChain \cup PadGetters \cup PadLinks \cup PadPush
    \cup PadProbes \cup NewGhostPads \cup GhostPadRows \cup PadTemplateRows

\* Where Go and C disagree: a stream with a reference too many, the caller's
\* buffer with two owners, buffers of which C takes the only reference, an
\* iterator that nobody frees.
PadDivergent ==
    ({"Pad.GetStream", "Pad.PullRange.filled",
      "ProxyPad.ChainDefault", "ProxyPad.ChainListDefault"} \X {"object"})
    \cup ({"iteratorToPadSlice.failed"} \X {"memory"})
=============================================================================
