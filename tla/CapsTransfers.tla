----------------------------- MODULE CapsTransfers -----------------------------
(***************************************************************************)
(* What caps, caps features and structures, and the samples, contexts and *)
(* streams that carry them, do with pointers: the rows of gst_caps.go,     *)
(* gst_caps_features.go, gst_structure.go, gst_sample.go, gst_context.go,  *)
(* gst_stream.go and gst_stream_collection.go (see TransferRows).          *)
(* Features have one owner and a parent, as structures do.                 *)
(***************************************************************************)
EXTENDS TransferRows

\* NewAnyCaps to MakeWritable.
NewCaps ==
    Result("object", "full", "full",
      {"NewAnyCaps", "NewEmptyCaps", "NewEmptySimpleCaps", "NewCapsFromString",
       "Caps.MakeWritable"})
    \cup Arg("object", "plain", "keeps", {"Caps.ToGValue"})
    \cup Arg("object", "plain", "consumes", {"Caps.MakeWritable.c"})
    \cup Arg("structure", "plain", "consumes", {"NewFullCaps"})
    \cup TempStrings({"NewEmptySimpleCaps", "NewCapsFromString"})

\* String to GetFeaturesAt.
CapsStructures ==
    Result("memory", "full", "freed", {"Caps.String"})
    \cup Arg("structure", "plain", "consumes",
           {"Caps.AppendStructure", "Caps.AppendStructureFull"})
    \cup Arg("structure", "yielded", "consumes",
           {"Caps.AppendStructureFull.features"})
    \cup Arg("object", "ref", "consumes", {"Caps.Append", "Caps.Fixate.c"})
    \cup Arg("object", "plain", "none", {"Caps.CanIntersect"})
    \cup Result("object", "full", "full",
           {"Caps.Copy", "Caps.CopyNth", "Caps.Fixate"})
    \cup Result("structure", "none", "kept", {"Caps.GetStructureAt"})
    \cup Result("structure", "none", "bare", {"Caps.GetFeaturesAt"})

\* Intersect to IsSubsetStructureFull.
CapsComparisons ==
    Result("object", "full", "full", {"Caps.Intersect", "Caps.IntersectFull"})
    \cup Arg("object", "plain", "none",
           {"Caps.Intersect", "Caps.IntersectFull", "Caps.IsAlwaysCompatible",
            "Caps.IsEqual", "Caps.IsEqualFixed", "Caps.IsStrictlyEqual",
            "Caps.IsSubset"})
    \cup Arg("structure", "plain", "none",
           {"Caps.IsSubsetStructure", "Caps.IsSubsetStructureFull"})

\* Merge to Truncate.  A structure that is stolen counts as a new one.
CapsAlgebra ==
    Result("object", "full", "full",
      {"Caps.Merge", "Caps.MergeStructure", "Caps.MergeStructureFull",
       "Caps.Simplify", "Caps.Subtract", "Caps.Truncate"})
    \cup Arg("object", "ref", "consumes",
           {"Caps.Merge", "Caps.MergeStructure", "Caps.MergeStructureFull",
            "Caps.Simplify", "Caps.Truncate"})
    \cup Arg("object", "plain", "none", {"Caps.Subtract"})
    \cup Arg("object", "plain", "consumes", {"Caps.Normalize"})
    \cup Result("object", "full", "bare", {"Caps.Normalize.result"})
    \cup Arg("structure", "plain", "consumes",
           {"Caps.MergeStructure", "Caps.MergeStructureFull"})
    \cup Arg("structure", "yielded", "consumes",
           {"Caps.MergeStructureFull.features", "Caps.SetFeaturesAt",
            "Caps.SetFeaturesSimple"})
    \cup Arg("memory", "made", "none", {"Caps.SetValue"})
    \cup Result("structure", "full", "handed", {"Caps.StealStructureAt"})

FeatureRows ==
    Result("structure", "full", "handed",
      {"NewCapsFeaturesEmpty", "NewCapsFeaturesAny", "NewCapsFeaturesFromString",
       "CapsFeatures.Copy"})
    \cup TempStrings(
           {"NewCapsFeaturesFromString", "CapsFeatures.Add",
            "CapsFeatures.Contains", "CapsFeatures.Remove"})
    \cup Arg("structure", "plain", "keeps", {"CapsFeatures.ToGValue"})
    \cup Arg("structure", "plain", "none", {"CapsFeatures.IsEqual"})
    \cup Result("memory", "full", "copied", {"CapsFeatures.String"})
    \cup BorrowedStrings({"CapsFeatures.GetNth"})

\* NewStructure to RemoveValue.
StructureRows ==
    Result("structure", "full", "full",
      {"NewStructure", "NewStructureFromString", "MarshalStructure"})
    \cup Result("memory", "full", "freed", {"Structure.String"})
    \cup BorrowedStrings({"Structure.Name"})
    \cup TempStrings(
           {"NewStructure", "NewStructureFromString", "Structure.SetValue",
            "Structure.GetValue", "Structure.RemoveValue"})

\* ToGValue to structureFromGlibFull.  The value copies the copy.
StructureValueRows ==
    Arg("structure", "made", "keeps", {"Structure.ToGValue"})
    \cup Result("structure", "none", "copied", {"marshalStructure"})
    \cup Result("structure", "full", "full", {"marshalStructure"})

SampleRows ==
    Result("object", "full", "full", {"Sample.Copy"})
    \cup Result("object", "none", "none",
           {"Sample.GetBuffer", "Sample.GetBufferList", "Sample.GetCaps"})
    \cup Result("structure", "none", "bare", {"Sample.GetInfo"})
    \cup Result("memory", "none", "bare", {"Sample.GetSegment"})
    \cup Arg("object", "plain", "keeps",
           {"Sample.SetBuffer", "Sample.SetBufferList", "Sample.SetCaps"})
    \cup Arg("memory", "plain", "keeps", {"Sample.SetSegment"})
    \cup Arg("structure", "plain", "consumes", {"Sample.SetInfo"})

ContextRows ==
    Result("object", "full", "full", {"NewContext", "Context.MakeWritable"})
    \cup Arg("object", "plain", "consumes", {"Context.MakeWritable.c"})
    \cup Result("structure", "none", "bare",
           {"Context.GetStructure", "Context.WritableStructure"})
    \cup TempStrings({"NewContext", "Context.HasContextType"})
    \cup BorrowedStrings({"Context.GetType"})

\* FromGstStreamUnsafeFull takes a reference like FromGstStreamUnsafeNone.
StreamRows ==
    Result("object", "full", "none", {"NewStream"})
    \cup Arg("object", "plain", "keeps",
           {"NewStream.caps", "Stream.SetCaps", "Stream.SetTags"})
    \cup Result("object", "full", "full", {"Stream.Caps", "Stream.Tags"})
    \cup TempStrings({"NewStream"})
    \cup BorrowedStrings({"Stream.StreamID"})

StreamCollectionRows ==
    Result("object", "full", "full", {"NewStreamCollection"})
    \cup Arg("object", "plain", "consumes", {"StreamCollection.AddStream"})
    \cup Result("object", "none", "none", {"StreamCollection.GetStreamAt"})
    \cup TempStrings({"NewStreamCollection"})
    \cup BorrowedStrings({"StreamCollection.GetUpstreamID"})

CapsRows ==
    NewCaps \cup CapsStructures \cup CapsComparisons \cup CapsAlgebra
    \cup FeatureRows
    \cup StructureRows \cup StructureValueRows \cup SampleRows
    \cup ContextRows \cup StreamRows \cup StreamCollectionRows

\* Where Go and C disagree: structures with two owners, arguments whose only
\* reference C takes, strings and copies nobody frees.
CapsDivergent ==
    ({"NewFullCaps", "Caps.AppendStructure", "Caps.AppendStructureFull",
      "Caps.MergeStructure", "Caps.MergeStructureFull", "Structure.ToGValue",
      "Sample.SetInfo"} \X {"structure"})
    \cup ({"Caps.MakeWritable.c", "Caps.Normalize", "Caps.Normalize.result",
           "Context.MakeWritable.c", "NewStream", "StreamCollection.AddStream"} \X {"object"})
    \cup ({"Caps.SetValue", "CapsFeatures.String"} \X {"memory"})
=============================================================================
