----------------------------- MODULE BufferTransfers -----------------------------
(***************************************************************************)
(* What buffers, buffer lists, memory, allocators and buffer pools do with *)
(* pointers: the rows of gst_buffer.go, gst_buffer_list.go, gst_memory.go, *)
(* gst_allocator.go and gst_buffer_pool.go (see TransferRows).  A GstMemory *)
(* is counted, an object.  Metas are memory of their buffer.               *)
(***************************************************************************)
EXTENDS TransferRows

\* NewEmptyBuffer to Instance.  Nobody frees the C string of NewBufferFull:
\* the notify is given a handle.
NewBuffers ==
    Result("object", "full", "full",
      {"NewEmptyBuffer", "NewBufferAllocate", "NewBufferFromBytes", "NewBufferFull"})
    \cup Arg("object", "plain", "keeps", {"NewBufferAllocate.alloc"})
    \cup Arg("memory", "plain", "none", {"NewBufferAllocate.params"})
    \cup Arg("memory", "temp", "keeps", {"NewBufferFromBytes"})
    \cup Arg("memory", "made", "none", {"NewBufferFull"})

\* AddMeta to AppendRegion.  The init function of the meta frees the handle.
BufferMetas ==
    Arg("memory", "made", "consumes", {"Buffer.AddMeta.params"})
    \cup Result("memory", "none", "bare",
           {"Buffer.AddMeta", "Buffer.AddParentMeta", "Buffer.AddProtectionMeta",
            "Buffer.AddReferenceTimestampMeta"})
    \cup Arg("object", "plain", "keeps",
           {"Buffer.AddParentMeta", "Buffer.AddReferenceTimestampMeta"})
    \cup Result("object", "none", "bare",
           {"Buffer.AddParentMeta.Buffer",
            "Buffer.AddReferenceTimestampMeta.Reference"})
    \cup Arg("structure", "plain", "consumes", {"Buffer.AddProtectionMeta"})
    \cup Result("structure", "none", "bare", {"Buffer.AddProtectionMeta.Info"})
    \cup Arg("object", "ref", "consumes",
           {"Buffer.Append", "Buffer.AppendMemory", "Buffer.AppendRegion"})
    \cup Result("object", "full", "full", {"Buffer.Append", "Buffer.AppendRegion"})

\* Copy to GetMeta.
BufferCopies ==
    Result("object", "full", "full",
      {"Buffer.Copy", "Buffer.DeepCopy", "Buffer.GetAllMemory",
       "Buffer.GetMemory", "Buffer.GetMemoryRange"})
    \cup Arg("object", "plain", "none", {"Buffer.CopyInto"})
    \cup Result("object", "full", "bare", {"Buffer.CopyRegion"})
    \cup Arg("memory", "temp", "none", {"Buffer.Extract", "Buffer.FillBytes"})
    \cup Result("memory", "none", "bare", {"Buffer.GetMeta"})

BufferReferences ==
    Arg("object", "plain", "none", {"Buffer.GetReferenceTimestampMeta"})
    \cup Result("memory", "none", "bare", {"Buffer.GetReferenceTimestampMeta"})
    \cup Result("object", "none", "bare",
           {"Buffer.GetReferenceTimestampMeta.Reference"})

\* InsertMemory to PeekMemory.  MakeWritable gives the copy no finalizer.
BufferMemory ==
    Arg("object", "ref", "consumes", {"Buffer.InsertMemory"})
    \cup Arg("object", "plain", "consumes", {"Buffer.MakeWritable.b"})
    \cup Result("object", "full", "bare", {"Buffer.MakeWritable"})
    \cup Result("memory", "none", "bare",
           {"Buffer.IterateMeta", "Buffer.IterateMetaFiltered"})
    \cup Result("object", "none", "none", {"Buffer.PeekMemory"})

BufferMemoryChanges ==
    Arg("object", "ref", "consumes",
      {"Buffer.PrependMemory", "Buffer.ReplaceAllMemory",
       "Buffer.ReplaceMemory", "Buffer.ReplaceMemoryRange"})

BufferListRows ==
    Result("object", "full", "full",
      {"NewBufferList", "NewBufferListSized", "BufferList.Copy",
       "BufferList.DeepCopy", "BufferList.MakeWritable"})
    \cup Arg("object", "plain", "consumes", {"BufferList.MakeWritable.b"})
    \cup Result("object", "none", "none",
           {"BufferList.GetBufferAt", "BufferList.GetWritableBufferAt"})
    \cup Arg("object", "ref", "consumes", {"BufferList.Insert"})

\* C keeps the Go memory it is given.
MemoryRows ==
    Arg("memory", "plain", "consumes", {"NewMemoryWrapped"})
    \cup Result("object", "full", "full", {"NewMemoryWrapped", "Memory.Copy"})
    \cup Result("object", "none", "bare", {"Memory.Allocator", "Memory.Parent"})

AllocatorRows ==
    Result("object", "full", "full", {"DefaultAllocator", "Allocator.Alloc"})
    \cup BorrowedStrings({"Allocator.MemType"})
    \cup Arg("memory", "plain", "none", {"Allocator.Alloc"})
    \cup Arg("object", "plain", "consumes", {"Allocator.Free"})

\* NewBufferPool to SetFlushing.
PoolRows ==
    Result("object", "full", "full", {"NewBufferPool", "BufferPool.AcquireBuffer"})
    \cup Arg("memory", "temp", "none",
           {"BufferPool.AcquireBuffer", "BufferPool.HasOption"})
    \cup Result("structure", "full", "handed", {"BufferPool.GetConfig"})
    \cup Arg("structure", "yielded", "consumes", {"BufferPool.SetConfig"})
    \cup Result("memory", "none", "freed", {"BufferPool.GetOptions"})
    \cup Arg("object", "ref", "consumes", {"BufferPool.ReleaseBuffer"})

PoolConfigRows ==
    TempStrings({"BufferPoolConfig.AddOption", "BufferPoolConfig.HasOption"})
    \cup BorrowedStrings({"BufferPoolConfig.GetOption"})
    \cup Result("object", "none", "none", {"BufferPoolConfig.GetAllocator"})
    \cup Result("object", "none", "bare", {"BufferPoolConfig.GetParams"})
    \cup Arg("object", "plain", "keeps",
           {"BufferPoolConfig.SetAllocator", "BufferPoolConfig.SetParams"})
    \cup Arg("memory", "plain", "keeps", {"BufferPoolConfig.SetAllocator"})
    \cup Arg("object", "plain", "none", {"BufferPoolConfig.Validate"})

BufferRows ==
    NewBuffers \cup BufferMetas \cup BufferCopies \cup BufferReferences
    \cup BufferMemory \cup BufferMemoryChanges \cup BufferListRows \cup MemoryRows
    \cup AllocatorRows \cup PoolRows \cup PoolConfigRows

\* Where Go and C disagree.
BufferDivergent ==
    ({"NewBufferFull", "NewMemoryWrapped", "BufferPool.GetOptions"} \X {"memory"})
    \cup ({"Buffer.CopyRegion", "Buffer.MakeWritable.b", "Buffer.MakeWritable",
           "BufferList.MakeWritable.b", "Allocator.Free"} \X {"object"})
    \cup {<<"Buffer.AddProtectionMeta", "structure">>}
=============================================================================
