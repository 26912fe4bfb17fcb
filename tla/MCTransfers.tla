------------------------------ MODULE MCTransfers ------------------------------
(***************************************************************************)
(* Transfers with the tables of the bindings.                              *)
(***************************************************************************)
EXTENDS Transfers, TLC, EventTransfers, MessageTransfers, QueryTransfers,
        CapsTransfers, TagTransfers, BufferTransfers,
        ObjectTransfers, PadTransfers, DeviceTransfers, BaseTransfers

MCRows ==
    EventRows \cup MessageRows \cup QueryRows \cup CapsRows \cup TagRows
    \cup BufferRows \cup ObjectRows \cup PadRows \cup DeviceAndPluginRows
    \cup BaseRows

MCDivergent ==
    EventDivergent \cup MessageDivergent \cup QueryDivergent
    \cup CapsDivergent \cup TagDivergent \cup BufferDivergent
    \cup ObjectDivergent \cup PadDivergent \cup DeviceDivergent
    \cup BaseDivergent

\* The rows of structures, those that disagree included.
MCStructureRows == {r \in MCRows : r.what = "structure"}

MCSymmetry == Permutations(Holders) \cup Permutations(Threads)

\* The divergent rows are exactly those whose two sides disagree, and every row
\* is for one of the three sorts: what the theorems of Transfers_proof assume.
TableExact ==
    /\ MCDivergent = {<<r.fn, r.what>> : r \in {s \in MCRows : ~Agrees(s)}}
    /\ \A r \in MCRows : r.what \in {"object", "structure", "memory"}
=============================================================================
