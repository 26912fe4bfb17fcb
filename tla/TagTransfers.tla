------------------------------ MODULE TagTransfers ------------------------------
(***************************************************************************)
(* What tag lists, tables of contents, their setters and segments do with  *)
(* pointers: the rows of gst_tag_list.go, gst_toc.go, gst_toc_setter.go,   *)
(* gst_tag_setter.go and gst_segment.go (see TransferRows).                *)
(***************************************************************************)
EXTENDS TransferRows

\* FromGstTagListUnsafeNone to GetBoolIndex.
NewTagLists ==
    Result("object", "full", "full",
      {"NewEmptyTagList", "NewTagListFromString", "TagList.Copy"})
    \cup Result("memory", "full", "freed", {"TagList.String"})
    \cup TempStrings(
           {"NewTagListFromString", "TagList.AddValue", "TagList.GetBool",
            "TagList.GetBoolIndex"})

\* GetDate to GetInt32.
TagDates ==
    Result("memory", "full", "freed",
      {"TagList.GetDate", "TagList.GetDateIndex", "TagList.GetDateTime",
       "TagList.GetDateTimeIndex"})
    \cup TempStrings(
           {"TagList.GetDate", "TagList.GetDateIndex", "TagList.GetDateTime",
            "TagList.GetDateTimeIndex", "TagList.GetFloat64",
            "TagList.GetFloat64Index", "TagList.GetFloat32",
            "TagList.GetFloat32Index", "TagList.GetInt32"})

\* GetInt32Index to GetStringIndex.
TagSamples ==
    Result("object", "full", "full",
      {"TagList.GetSample", "TagList.GetSampleIndex"})
    \cup Result("memory", "full", "freed",
           {"TagList.GetString", "TagList.GetStringIndex"})
    \cup TempStrings(
           {"TagList.GetInt32Index", "TagList.GetInt64", "TagList.GetInt64Index",
            "TagList.GetPointer", "TagList.GetPointerIndex", "TagList.GetSample",
            "TagList.GetSampleIndex", "TagList.GetString",
            "TagList.GetStringIndex"})

\* GetUint32 to RemoveTag.  A string that is only peeked at is freed.
TagValues ==
    TempStrings(
      {"TagList.GetUint32", "TagList.GetUint32Index", "TagList.GetUint64",
       "TagList.GetUint64Index", "TagList.GetValueIndex", "TagList.GetTagSize",
       "TagList.PeekStringIndex", "TagList.RemoveTag"})
    \cup Arg("object", "plain", "none",
           {"TagList.Insert", "TagList.IsEqual", "TagList.Merge"})
    \cup Arg("object", "plain", "consumes", {"TagList.MakeWritable.t"})
    \cup Result("object", "full", "full", {"TagList.MakeWritable", "TagList.Merge"})
    \cup BorrowedStrings({"TagList.TagNameAt"})
    \cup Result("memory", "none", "freed", {"TagList.PeekStringIndex.value"})

\* NewTOC to TOC.SetTags.
TOCRows ==
    Result("object", "full", "full", {"NewTOC", "TOC.MakeWritable", "TOC.Copy"})
    \cup Arg("object", "plain", "consumes", {"TOC.MakeWritable.t", "TOC.AppendEntry"})
    \cup TempStrings({"TOC.FindEntry"})
    \cup Result("object", "none", "none",
           {"TOC.FindEntry", "TOC.GetEntries", "TOC.GetTags"})
    \cup Result("memory", "none", "freed", {"TOC.GetEntries"})
    \cup Arg("object", "plain", "none", {"TOC.MergeTags"})
    \cup Arg("object", "ref", "consumes", {"TOC.SetTags"})

\* NewTOCEntry to TOCEntry.AppendSubEntry.
NewTOCEntries ==
    TempStrings({"NewTOCEntry"})
    \cup Result("object", "full", "full",
           {"NewTOCEntry", "TOCEntry.MakeWritable", "TOCEntry.Copy"})
    \cup Arg("object", "plain", "consumes", {"TOCEntry.MakeWritable.t"})
    \cup Arg("object", "ref", "consumes", {"TOCEntry.AppendSubEntry"})

\* GetEntryType to TOCEntry.SetTags.
TOCEntryRows ==
    BorrowedStrings({"TOCEntry.GetEntryTypeString", "TOCEntry.GetUID"})
    \cup Result("object", "none", "none",
           {"TOCEntry.GetParent", "TOCEntry.GetSubEntries", "TOCEntry.GetTags",
            "TOCEntry.GetTOC"})
    \cup Result("memory", "none", "freed", {"TOCEntry.GetSubEntries"})
    \cup Arg("object", "plain", "none", {"TOCEntry.MergeTags"})
    \cup Arg("object", "ref", "consumes", {"TOCEntry.SetTags"})

TOCSetterRows ==
    Result("object", "full", "full", {"gstTOCSetter.GetTOC"})
    \cup Arg("object", "plain", "keeps", {"gstTOCSetter.SetTOC"})

TagSetterRows ==
    Result("object", "none", "none", {"gstTagSetter.GetTagList"})
    \cup TempStrings({"gstTagSetter.AddTagValue"})
    \cup Arg("object", "plain", "none", {"gstTagSetter.MergeTags"})

NewSegments == Result("memory", "full", "handed", {"NewSegment"})

SegmentCopies ==
    Result("memory", "full", "handed", {"Segment.Copy"})
    \cup Arg("memory", "plain", "none", {"Segment.CopyInto"})

TagRows ==
    NewTagLists \cup TagDates \cup TagSamples \cup TagValues \cup TOCRows
    \cup NewTOCEntries \cup TOCEntryRows \cup TOCSetterRows \cup TagSetterRows
    \cup NewSegments \cup SegmentCopies

\* Where Go and C disagree: memory of C that is freed, arguments whose only
\* reference C takes.
TagDivergent ==
    ({"TagList.PeekStringIndex.value", "TOC.GetEntries",
      "TOCEntry.GetSubEntries"} \X {"memory"})
    \cup ({"TagList.MakeWritable.t", "TOC.MakeWritable.t", "TOC.AppendEntry",
           "TOCEntry.MakeWritable.t"} \X {"object"})
=============================================================================
