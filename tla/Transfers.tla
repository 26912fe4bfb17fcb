------------------------------- MODULE Transfers -------------------------------
(***************************************************************************)
(* What becomes of references and memory when the constructors, setters   *)
(* and getters of the bindings move them between Go and C.  Rows is the    *)
(* table of what these functions do (see TransferRows).  A holder is an    *)
(* object that holds others: an event its tag list, a message its          *)
(* structure, caps their structures, a sample its buffer.                  *)
(*                                                                         *)
(* count is C's reference count, 1 for memory and structures that are      *)
(* allocated.  Each of the following will take one away again:             *)
(*   wrapped   Go wrappers with a finalizer                                *)
(*   manual    references and memory the application was handed            *)
(*   core      references of elements, queues and the bus                  *)
(*   holders   the objects that hold it; they let go when they are freed   *)
(*   a call in progress that carries it.                                   *)
(*                                                                         *)
(* A call takes two steps, so that other threads, finalizers and releases  *)
(* come between.  The application keeps what it passes to a call reachable *)
(* until the call returns when Careful is TRUE: the bindings do not do it  *)
(* for it (Instance() is evaluated before C is entered).  It does not use  *)
(* one holder in two calls at a time, the rule for writable objects.       *)
(***************************************************************************)
EXTENDS Integers, FiniteSets, TransferRows

CONSTANTS
    Holders,      \* objects that hold others
    Objects,      \* objects that are held
    Structures,   \* addresses of structures
    Memory,       \* addresses of strings, lists and other memory
    Threads,      \* threads that call the bindings
    Rows,         \* the table of transfers
    Divergent,    \* pairs <<function, what>> left out of the behaviour
    Careful,      \* the application keeps arguments reachable during a call
    NoItem,       \* no item
    MaxClaims     \* bound on the claims to one item

Items == Objects \cup Structures \cup Memory
All   == Holders \cup Items

ASSUME TransfersAssumption ==
    /\ NoItem \notin All
    /\ Holders \cap Items = {}
    /\ Objects \cap Structures = {}
    /\ Objects \cap Memory = {}
    /\ Structures \cap Memory = {}
    /\ Careful \in BOOLEAN
    /\ MaxClaims \in Nat
    /\ IsFiniteSet(Holders) /\ IsFiniteSet(Threads)

VARIABLES
    count,        \* [thing -> reference count, 0 when freed]
    wrapped,      \* [thing -> wrappers with a finalizer]
    manual,       \* [thing -> references the application has to return]
    core,         \* [thing -> references of the C core]
    holders,      \* [thing -> the holders that hold it]
    frame,        \* [thread -> the call it is in]
    loans         \* wrappers that own nothing

vars == <<count, wrapped, manual, core, holders, frame, loans>>

Idle == [row |-> [way |-> "idle"], item |-> NoItem, holder |-> NoItem]

\* What the rows can do, without the names of the functions.
Ways(way) ==
    {[way |-> r.way, what |-> r.what, go |-> r.go, c |-> r.c] :
        r \in {s \in Rows : s.way = way /\ <<s.fn, s.what>> \notin Divergent}}

Passing   == Ways("arg")
Returning == Ways("result")

OfKind(what) ==
    CASE what = "object"    -> Objects
      [] what = "structure" -> Structures
      [] what = "memory"    -> Memory

Add(f, x, n) == [f EXCEPT ![x] = @ + n]
One(b) == IF b THEN 1 ELSE 0

\* The call has a reference or memory it will pass on or free.
CarryingRow(row) ==
    \/ row.way = "arg" /\ row.go \in {"ref", "temp", "made", "yielded"}
    \/ row.way = "result" /\ row.c \in {"full", "floating"}

Carrying(x) == {t \in Threads : frame[t].item = x /\ CarryingRow(frame[t].row)}

Claims(x) ==
    wrapped[x] + manual[x] + core[x]
      + Cardinality(holders[x]) + Cardinality(Carrying(x))

Room(x) == Claims(x) < MaxClaims
Reachable(x) == wrapped[x] + manual[x] > 0

\* Mutant: a call keeps its receiver reachable and not its argument.
Using_Receiver(x) == {t \in Threads : frame[t].holder = x}

\* Threads in a call that was given the wrapper of x.
Using(x) ==
    {t \in Threads : \/ frame[t].holder = x
                     \/ frame[t].item = x /\ frame[t].row.way = "arg"}

\* The application can give up one of the references it was handed.
LastUse(x) == manual[x] > 0 /\ (Using(x) # {} => wrapped[x] + manual[x] > 1)

KeptLoans(h) == {l \in loans : l.holder = h /\ l.kept}

\* Nothing is left of an earlier use of the address.
Fresh(x) ==
    /\ count[x] = 0 /\ Claims(x) = 0 /\ Using(x) = {}
    /\ \A t \in Threads : frame[t].item # x
    /\ \A i \in Items : x \notin holders[i]
    /\ \A l \in loans : l.item # x /\ l.holder # x

-----------------------------------------------------------------------------
\* A holder from a constructor.
Make(h) ==
    /\ Fresh(h)
    /\ count' = Add(count, h, 1)
    /\ wrapped' = Add(wrapped, h, 1)
    /\ UNCHANGED <<manual, core, holders, frame, loans>>

\* A function is called with an item for a holder.  C accepts a structure
\* for a parent only when it has none.
Pass(t, h, i, a) ==
    /\ frame[t] = Idle
    /\ Reachable(h) /\ Using(h) = {} /\ h \notin holders[i]
    /\ i \in OfKind(a.what) /\ Room(i)
    /\ IF a.go \in {"temp", "made"} THEN Fresh(i) ELSE Reachable(i)
    /\ a.go = "yielded" => LastUse(i)
    /\ a.what = "structure" /\ a.c = "consumes" => holders[i] = {}
    /\ count' = Add(count, i, One(a.go \in {"ref", "temp", "made"}))
    /\ manual' = Add(manual, i, -One(a.go = "yielded"))
    /\ frame' = [frame EXCEPT ![t] = [row |-> a, item |-> i, holder |-> h]]
    /\ UNCHANGED <<wrapped, core, holders, loans>>

\* C takes what it takes, temporary memory is freed and the call returns.  A
\* structure or memory C keeps is a copy.
PassReturns(t) ==
    LET a == frame[t].row
        i == frame[t].item
        refs == a.c = "keeps" /\ a.what = "object"
        takes == a.c = "consumes" /\ a.go # "copy"
    IN  /\ a.way = "arg"
        /\ count' = Add(count, i, One(refs) - One(a.go = "temp"))
        /\ holders' = IF refs \/ takes
                        THEN [holders EXCEPT ![i] = @ \cup {frame[t].holder}]
                        ELSE holders
        /\ frame' = [frame EXCEPT ![t] = Idle]
        /\ UNCHANGED <<wrapped, manual, core, loans>>

\* C returns an item: a new one, a reference to one the holder has, or the
\* bare pointer to one the holder has.
Fetch(t, h, i, r) ==
    /\ frame[t] = Idle
    /\ Reachable(h) /\ Using(h) = {}
    /\ i \in OfKind(r.what) /\ Room(i)
    /\ \/ CarryingRow(r) /\ Fresh(i)
       \/ r.c = "full" /\ r.what = "object" /\ h \in holders[i]
       \/ r.c = "none" /\ h \in holders[i]
    /\ count' = Add(count, i, One(CarryingRow(r)))
    /\ frame' = [frame EXCEPT ![t] = [row |-> r, item |-> i, holder |-> h]]
    /\ UNCHANGED <<wrapped, manual, core, holders, loans>>

\* The result is wrapped or copied.
FetchReturns(t) ==
    LET r == frame[t].row
        i == frame[t].item
        h == frame[t].holder
        loan == [item |-> i, holder |-> h,
                 kept |-> r.go = "kept" /\ wrapped[h] > 0]
    IN  /\ r.way = "result"
        /\ count' = Add(count, i,
             One(r.go = "none" /\ r.c # "floating") - One(r.go = "freed"))
        /\ wrapped' = Add(wrapped, i, One(r.go \in {"full", "none"}))
        /\ manual' = Add(manual, i, One(r.go = "handed"))
        /\ loans' = IF r.go \in {"bare", "kept"} THEN loans \cup {loan} ELSE loans
        /\ frame' = [frame EXCEPT ![t] = Idle]
        /\ UNCHANGED <<core, holders>>

\* Mutant: the wrapper of a structure does not keep its caps reachable.
Finalize_NoKeepAlive(x) ==
    /\ wrapped[x] > 0
    /\ Careful /\ Using(x) # {} => wrapped[x] + manual[x] > 1
    /\ wrapped' = Add(wrapped, x, -1)
    /\ count' = IF x \in Structures /\ holders[x] # {}
                  THEN count
                  ELSE Add(count, x, -1)
    /\ UNCHANGED <<manual, core, holders, frame, loans>>

\* A wrapper has become unreachable: not while a call uses it, and not while
\* the finalizer of a kept loan still refers to it.  C refuses to free a
\* structure that has a parent.
Finalize(x) ==
    /\ wrapped[x] > 0
    /\ Careful /\ Using(x) # {} => wrapped[x] + manual[x] > 1
    /\ KeptLoans(x) # {} => wrapped[x] > 1
    /\ wrapped' = Add(wrapped, x, -1)
    /\ count' = IF x \in Structures /\ holders[x] # {}
                  THEN count
                  ELSE Add(count, x, -1)
    /\ UNCHANGED <<manual, core, holders, frame, loans>>

\* The application returns what it was handed, after its last use.
Unref(x) ==
    /\ LastUse(x)
    /\ manual' = Add(manual, x, -1)
    /\ count' = Add(count, x, -1)
    /\ UNCHANGED <<wrapped, core, holders, frame, loans>>

DropLoan(l) ==
    /\ loans' = loans \ {l}
    /\ UNCHANGED <<count, wrapped, manual, core, holders, frame>>

-----------------------------------------------------------------------------
\* The holder goes to C with a reference of its own (Push, Post, SendEvent).
Send(h) ==
    /\ Reachable(h) /\ Room(h)
    /\ count' = Add(count, h, 1)
    /\ core' = Add(core, h, 1)
    /\ UNCHANGED <<wrapped, manual, holders, frame, loans>>

\* It comes back with C's reference (Pop, PullSample).
Receive(h) ==
    /\ core[h] > 0
    /\ core' = Add(core, h, -1)
    /\ wrapped' = Add(wrapped, h, 1)
    /\ UNCHANGED <<count, manual, holders, frame, loans>>

\* C creates a holder with an item, a new one or one that others hold too.
Arrive(h, i) ==
    /\ Fresh(h) /\ Room(i)
    /\ \/ Fresh(i)
       \/ i \in Objects /\ holders[i] # {}
    /\ count' = [count EXCEPT ![h] = @ + 1, ![i] = @ + 1]
    /\ core' = Add(core, h, 1)
    /\ holders' = [holders EXCEPT ![i] = @ \cup {h}]
    /\ UNCHANGED <<wrapped, manual, frame, loans>>

CoreUnref(h) ==
    /\ core[h] > 0
    /\ core' = Add(core, h, -1)
    /\ count' = Add(count, h, -1)
    /\ UNCHANGED <<wrapped, manual, holders, frame, loans>>

\* A holder that has been freed lets go of what it holds.
Release(h, i) ==
    /\ count[h] = 0 /\ h \in holders[i]
    /\ holders' = [holders EXCEPT ![i] = @ \ {h}]
    /\ count' = Add(count, i, -1)
    /\ UNCHANGED <<wrapped, manual, core, frame, loans>>

-----------------------------------------------------------------------------
Init ==
    /\ count = [x \in All |-> 0]
    /\ wrapped = [x \in All |-> 0]
    /\ manual = [x \in All |-> 0]
    /\ core = [x \in All |-> 0]
    /\ holders = [x \in All |-> {}]
    /\ frame = [t \in Threads |-> Idle]
    /\ loans = {}

Next ==
    \/ \E h \in Holders :
         \/ Make(h) \/ Send(h) \/ Receive(h) \/ CoreUnref(h)
         \/ \E i \in Items : Arrive(h, i) \/ Release(h, i)
    \/ \E x \in All : Finalize(x) \/ Unref(x)
    \/ \E l \in loans : DropLoan(l)
    \/ \E t \in Threads :
         \/ \E h \in Holders, i \in Items :
              \/ \E a \in Passing : Pass(t, h, i, a)
              \/ \E r \in Returning : Fetch(t, h, i, r)
         \/ PassReturns(t) \/ FetchReturns(t)

Spec == Init /\ [][Next]_vars

-----------------------------------------------------------------------------
Counter == [All -> Nat]

TypeOK ==
    /\ count \in [All -> Int]
    /\ wrapped \in Counter /\ manual \in Counter /\ core \in Counter
    /\ holders \in [All -> SUBSET Holders]
    /\ frame \in [Threads ->
         {Idle} \cup [row : Passing \cup Returning, item : Items, holder : Holders]]
    /\ loans \subseteq [item : Items, holder : Holders, kept : BOOLEAN]

\* Whatever order constructors, getters, finalizers and C run in, and however
\* holders share what they hold, nothing is freed while a wrapper, a holder,
\* C or a call will still let go of it (every row of the tables).
AliveWhileClaimed == \A x \in All : Claims(x) > 0 => count[x] > 0

\* And when the last of them has let go, it is freed: no getter takes a
\* reference too many, no string or list of a call is forgotten.
FreedWhenUnclaimed == \A x \in All : Claims(x) = 0 => count[x] = 0

\* What a constructor takes ownership of is freed by the event, message or caps
\* and by nobody else (gst_event_constructors.go:113: "The event will take
\* ownership of the structure").
TakenStructuresFreedOnce == \A s \in Structures : count[s] >= 0

\* The pointers a call works with stay valid until it returns, whatever other
\* threads and finalizers release meanwhile.
CallsSafe ==
    \A t \in Threads :
        frame[t] # Idle => count[frame[t].item] > 0 /\ count[frame[t].holder] > 0

\* A structure that belongs to caps stays valid as long as its wrapper is in
\* use, without the application doing anything for it (gst_caps.go:272: "we
\* don't own the structure, so keep the caps alive until we don't need the
\* structure anymore").
KeptLoansValid ==
    \A l \in loans : l.kept => l.holder \in holders[l.item] /\ count[l.item] > 0
=============================================================================
