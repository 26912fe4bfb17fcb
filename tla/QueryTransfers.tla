---------------------------- MODULE QueryTransfers ----------------------------
(***************************************************************************)
(* What queries do with pointers: the rows of gst_query.go (see            *)
(* TransferRows).                                                          *)
(***************************************************************************)
EXTENDS TransferRows

\* FromGstQueryUnsafeNone to NewURIQuery.
NewQueries ==
    Result("object", "full", "full",
      {"NewAcceptCapsQuery", "NewAllocationQuery", "NewBitrateQuery",
       "NewBufferingQuery", "NewCapsQuery", "NewContextQuery",
       "NewConvertQuery", "NewCustomQuery", "NewDrainQuery",
       "NewDurationQuery", "NewFormatsQuery", "NewLatencyQuery",
       "NewPositionQuery", "NewSchedulingQuery", "NewSeekingQuery",
       "NewSegmentQuery", "NewURIQuery"})
    \cup Arg("object", "plain", "keeps",
           {"NewAcceptCapsQuery", "NewAllocationQuery", "NewCapsQuery"})
    \cup Arg("structure", "plain", "consumes", {"NewCustomQuery"})
    \cup TempStrings({"NewContextQuery"})

\* AddAllocationMeta to ParseBufferingStats.  C copies structure and
\* parameters.
QueryAllocation ==
    Arg("structure", "plain", "keeps", {"Query.AddAllocationMeta"})
    \cup Arg("object", "plain", "keeps",
           {"Query.AddAllocationParam", "Query.AddAllocationPool"})
    \cup Arg("memory", "plain", "keeps", {"Query.AddAllocationParam"})
    \cup Result("object", "full", "full", {"Query.Copy"})
    \cup Result("structure", "none", "bare", {"Query.GetStructure"})
    \cup Result("object", "none", "none",
           {"Query.ParseAcceptCaps", "Query.ParseAllocation"})
    \cup Arg("memory", "made", "none",
           {"Query.ParseAcceptCaps", "Query.ParseAllocation"})

\* ParseCaps to ParseURI.
QueryParsers ==
    Result("object", "none", "none",
      {"Query.ParseCaps", "Query.ParseCapsResult", "Query.ParseContext"})
    \cup Arg("memory", "made", "none", {"Query.ParseCaps", "Query.ParseCapsResult"})
    \cup Result("structure", "none", "bare", {"Query.ParseAllocationMetaAt"})
    \cup Result("object", "full", "full",
           {"Query.ParseAllocationParamAt", "Query.ParseAllocationPoolAt"})
    \cup TempStrings({"Query.ParseContextType", "Query.ParseURI"})
    \cup BorrowedStrings({"Query.ParseContextType"})
    \cup Result("memory", "full", "copied", {"Query.ParseURI"})

\* ParseURIRedirection to WritableStructure.
QuerySetters ==
    TempStrings({"Query.ParseURIRedirection", "Query.SetURI",
                 "Query.SetURIRedirection"})
    \cup Result("memory", "full", "copied", {"Query.ParseURIRedirection"})
    \cup Arg("object", "plain", "keeps",
           {"Query.SetCapsResult", "Query.SetContext",
            "Query.SetAllocationParamAt", "Query.SetAllocationPoolAt"})
    \cup Arg("memory", "plain", "keeps", {"Query.SetAllocationParamAt"})
    \cup Result("structure", "none", "bare", {"Query.WritableStructure"})

QueryRows == NewQueries \cup QueryAllocation \cup QueryParsers \cup QuerySetters

\* Where Go and C disagree: a structure with two owners, memory for caps and
\* strings nobody frees.
QueryDivergent ==
    {<<"NewCustomQuery", "structure">>}
    \cup ({"Query.ParseAcceptCaps", "Query.ParseAllocation", "Query.ParseCaps",
           "Query.ParseCapsResult", "Query.ParseURI",
           "Query.ParseURIRedirection"} \X {"memory"})
=============================================================================
