--------------------------- MODULE Callbacks_proof ---------------------------
(***************************************************************************)
(* Proofs about module Callbacks, for any number of threads, callbacks,    *)
(* addresses and nested calls, and any kinds of callbacks, as long as      *)
(* collect pads are not freed before they are stopped.                     *)
(***************************************************************************)
EXTENDS Callbacks, SequenceTheorems, TLAPS

-----------------------------------------------------------------------------
Tables ==
    /\ store \in [Addresses -> Callbacks \cup {None}]
    /\ kind \in [Callbacks -> Kinds \cup {None}]
    /\ ptr \in [Callbacks -> Addresses \cup {None}]
    /\ state \in [Callbacks -> {"free", "saved", "set", "gone", "lost"}]

\* gopointer's table and what C and go-gst hold are each other's inverse.
Entries ==
    /\ \A a \in Addresses, c \in Callbacks : store[a] = c <=> ptr[c] = a
    /\ \A c \in Callbacks : (state[c] = "free" <=> ptr[c] = None)
                            /\ (kind[c] = None <=> ptr[c] = None)
                            /\ (state[c] = "lost" => kind[c] \in Dropped)

\* What the point a frame is at says of its callback.
FrameOK(f) ==
    /\ f.at # "unprofile" => ptr[f.cb] = f.addr
    /\ f.at \in {"saved", "profiled"} => state[f.cb] = "saved"
    /\ f.at = "profiled" => kind[f.cb] = "probe"
    /\ f.at = "iterating" => kind[f.cb] = "foreach" /\ state[f.cb] = "set"
    /\ f.at \in {"called", "running"} =>
         /\ state[f.cb] \in {"set", "gone", "lost"}
         /\ kind[f.cb] = "buffer" => state[f.cb] = "gone"
    /\ f.at = "notify" => state[f.cb] = "gone" /\ kind[f.cb] # "collect"

Framed == \A t \in Threads : \A i \in 1..Len(stack[t]) : FrameOK(stack[t][i])

\* Calls nest inside functions of the application and iterations only.
Nested ==
    /\ stack \in [Threads -> Seq(Frames)]
    /\ \A t \in Threads :
        /\ Len(stack[t]) <= MaxDepth
        /\ \A i \in 1..(Len(stack[t]) - 1) : stack[t][i].at \in {"running", "iterating"}

\* Both frames work with the entry of one callback.
Share(f, g) == f.cb = g.cb /\ f.at # "unprofile" /\ g.at # "unprofile"

\* Who registers a callback, notifies for it or runs one that releases itself
\* is alone with it; calls of an iteration lie above it.
Alone ==
    \A t, u \in Threads :
        \A i \in 1..Len(stack[t]), j \in 1..Len(stack[u]) :
            Share(stack[t][i], stack[u][j]) /\ ~(t = u /\ i = j) =>
                /\ stack[t][i].at \notin {"saved", "profiled", "notify"}
                /\ kind[stack[t][i].cb] \notin SelfReleased
                /\ stack[t][i].at = "iterating" => t = u /\ i < j

IInv == Tables /\ Entries /\ Framed /\ Nested /\ Alone

\* An address a notify has freed stays free until it is out of the profile.
Vacated ==
    \A t \in Threads : TopIs(t, "unprofile") => store[Top(t).addr] = None

\* The probes AddProbe is done with.
Saving(c) == \E t \in Threads : TopIs(t, "saved") /\ Top(t).cb = c
Probes == {c \in Callbacks : kind[c] = "probe" /\ ~Saving(c)}

Leaving == {Top(t).addr : t \in {u \in Threads : TopIs(u, "unprofile")}}

\* The profile names the probes, and addresses that are about to leave it.
Profiled ==
    /\ profile \subseteq {ptr[c] : c \in Probes} \cup Leaving
    /\ \A c \in Probes : ptr[c] \in profile

PInv == IInv /\ Vacated /\ Profiled /\ ~panicked

-----------------------------------------------------------------------------
\* What stays of the stack of u when the stack of t is cut to m frames.
Kept(t, m, u) == {stack[u][i] : i \in 1..(IF u = t THEN m ELSE Len(stack[u]))}

\* The stack of t is cut to m frames.
Cut(t, m) ==
    /\ stack' \in [Threads -> Seq(Frames)]
    /\ \A u \in Threads \ {t} : stack'[u] = stack[u]
    /\ Len(stack'[t]) = m
    /\ \A i \in 1..m : stack'[t][i] = stack[t][i]

\* The stack of t is cut to m frames and f is put on it.
Topped(t, m, f) ==
    /\ stack' \in [Threads -> Seq(Frames)]
    /\ \A u \in Threads \ {t} : stack'[u] = stack[u]
    /\ Len(stack'[t]) = m + 1
    /\ \A i \in 1..m : stack'[t][i] = stack[t][i]
    /\ stack'[t][m + 1] = f

\* A sequence without its last element.
LEMMA Shortened ==
    ASSUME NEW S, NEW s \in Seq(S), Len(s) \in Nat \ {0}
    PROVE  /\ SubSeq(s, 1, Len(s) - 1) \in Seq(S)
           /\ Len(SubSeq(s, 1, Len(s) - 1)) = Len(s) - 1
           /\ \A i \in 1..(Len(s) - 1) : SubSeq(s, 1, Len(s) - 1)[i] = s[i]
  <1>1. \A i \in 1..(Len(s) - 1) : s[i] \in S
    OBVIOUS
  <1>2. 1 \in Int /\ Len(s) - 1 \in Int
    OBVIOUS
  <1>3. /\ SubSeq(s, 1, Len(s) - 1) \in Seq(S)
        /\ Len(SubSeq(s, 1, Len(s) - 1)) =
             IF 1 <= Len(s) - 1 THEN (Len(s) - 1) - 1 + 1 ELSE 0
        /\ \A i \in 1..((Len(s) - 1) - 1 + 1) :
              SubSeq(s, 1, Len(s) - 1)[i] = s[1 + i - 1]
    BY <1>1, <1>2, SubSeqProperties
  <1> DEFINE r == SubSeq(s, 1, Len(s) - 1)
             n == Len(s)
  <1>4. n \in Nat \ {0}
    OBVIOUS
  <1>5. /\ Len(r) = IF 1 <= n - 1 THEN (n - 1) - 1 + 1 ELSE 0
        /\ \A i \in 1..((n - 1) - 1 + 1) : r[i] = s[1 + i - 1]
    BY <1>3
  <1> HIDE DEF r, n
  <1>6. Len(r) = n - 1 /\ \A i \in 1..(n - 1) : r[i] = s[i]
    BY <1>4, <1>5
  <1> QED
    BY <1>3, <1>6 DEF r, n

LEMMA EnterShape ==
    ASSUME IInv, NEW t \in Threads, NEW point \in Points, NEW c \in Callbacks,
           NEW a \in Addresses, Enter(t, point, c, a)
    PROVE  Topped(t, Len(stack[t]), [at |-> point, cb |-> c, addr |-> a])
  <1>1. /\ stack[t] \in Seq(Frames) /\ stack \in [Threads -> Seq(Frames)]
        /\ [at |-> point, cb |-> c, addr |-> a] \in Frames
    BY DEF IInv, Nested, Frames
  <1>2. stack' = [stack EXCEPT ![t] =
                    Append(stack[t], [at |-> point, cb |-> c, addr |-> a])]
    BY DEF Enter
  <1> QED
    BY <1>1, <1>2 DEF Topped

LEMMA PopShape ==
    ASSUME IInv, NEW t \in Threads, stack[t] # <<>>, Become(t, <<>>)
    PROVE  Cut(t, Len(stack[t]) - 1)
  <1>1. stack[t] \in Seq(Frames) /\ stack \in [Threads -> Seq(Frames)]
    BY DEF IInv, Nested
  <1>2. stack' = [stack EXCEPT ![t] = SubSeq(stack[t], 1, Len(stack[t]) - 1) \o <<>>]
    BY DEF Become
  <1>3. Len(stack[t]) \in Nat \ {0}
    BY <1>1
  <1>4. /\ SubSeq(stack[t], 1, Len(stack[t]) - 1) \in Seq(Frames)
        /\ Len(SubSeq(stack[t], 1, Len(stack[t]) - 1)) = Len(stack[t]) - 1
        /\ \A i \in 1..(Len(stack[t]) - 1) :
              SubSeq(stack[t], 1, Len(stack[t]) - 1)[i] = stack[t][i]
    BY <1>1, <1>3, Shortened
  <1>5. stack' = [stack EXCEPT ![t] = SubSeq(stack[t], 1, Len(stack[t]) - 1)]
    BY <1>2, <1>4
  <1> QED
    BY <1>1, <1>4, <1>5 DEF Cut

LEMMA ReplaceShape ==
    ASSUME IInv, NEW t \in Threads, stack[t] # <<>>, NEW f \in Frames,
           Become(t, <<f>>)
    PROVE  Topped(t, Len(stack[t]) - 1, f)
  <1>1. stack[t] \in Seq(Frames) /\ stack \in [Threads -> Seq(Frames)]
    BY DEF IInv, Nested
  <1>2. stack' = [stack EXCEPT ![t] = SubSeq(stack[t], 1, Len(stack[t]) - 1) \o <<f>>]
    BY DEF Become
  <1>3. Len(stack[t]) \in Nat \ {0}
    BY <1>1
  <1>4. /\ SubSeq(stack[t], 1, Len(stack[t]) - 1) \in Seq(Frames)
        /\ Len(SubSeq(stack[t], 1, Len(stack[t]) - 1)) = Len(stack[t]) - 1
        /\ \A i \in 1..(Len(stack[t]) - 1) :
              SubSeq(stack[t], 1, Len(stack[t]) - 1)[i] = stack[t][i]
    BY <1>1, <1>3, Shortened
  <1> DEFINE new == SubSeq(stack[t], 1, Len(stack[t]) - 1) \o <<f>>
  <1>5. /\ new \in Seq(Frames) /\ Len(new) = (Len(stack[t]) - 1) + 1
        /\ \A i \in 1..(Len(stack[t]) - 1) : new[i] = stack[t][i]
        /\ new[(Len(stack[t]) - 1) + 1] = f
    BY <1>1, <1>3, <1>4
  <1> HIDE DEF new
  <1> QED
    BY <1>1, <1>2, <1>5 DEF Topped, new

-----------------------------------------------------------------------------
\* Frame f and what is kept of the stack of u get on with each other.
Fits(f, t, u, g) ==
    Share(f, g) =>
        /\ f.at \notin {"saved", "profiled", "notify", "iterating"}
        /\ g.at \notin {"saved", "profiled", "notify"}
        /\ g.at = "iterating" => u = t

\* Taking a frame away.
LEMMA CutIInv ==
    ASSUME IInv, NEW t \in Threads, NEW m \in Nat, m <= Len(stack[t]), Cut(t, m),
           Tables', Entries',
           \A u \in Threads : \A g \in Kept(t, m, u) : FrameOK(g)',
           \A c \in Callbacks : kind'[c] \in SelfReleased => kind[c] \in SelfReleased
    PROVE  IInv'
  <1>1. \A u \in Threads : /\ Len(stack'[u]) <= Len(stack[u])
                           /\ Len(stack'[u]) \in Nat /\ Len(stack[u]) \in Nat
                           /\ u = t => Len(stack'[u]) = m
                           /\ u # t => Len(stack'[u]) = Len(stack[u])
                           /\ \A i \in 1..Len(stack'[u]) :
                                stack'[u][i] = stack[u][i] /\ stack[u][i] \in Frames
    BY DEF Cut, IInv, Nested
  <1>2. Nested'
    <2>1. \A u \in Threads : Len(stack'[u]) <= MaxDepth
      BY <1>1, CallbacksAssumption DEF IInv, Nested
    <2>2. \A u \in Threads : \A i \in 1..(Len(stack'[u]) - 1) :
             stack'[u][i].at \in {"running", "iterating"}
      <3> SUFFICES ASSUME NEW u \in Threads, NEW i \in 1..(Len(stack'[u]) - 1)
                   PROVE  stack'[u][i].at \in {"running", "iterating"}
        OBVIOUS
      <3>1. i \in 1..Len(stack'[u]) /\ i \in 1..(Len(stack[u]) - 1)
        BY <1>1
      <3> QED
        BY <1>1, <3>1 DEF IInv, Nested
    <2> QED
      BY <2>1, <2>2 DEF Cut, Nested
  <1>3. Framed'
    <2> SUFFICES ASSUME NEW u \in Threads, NEW i \in 1..Len(stack'[u])
                 PROVE  FrameOK(stack[u][i])'
      BY DEF Framed
    <2>1. PICK g \in Frames : g = stack[u][i]
      BY <1>1
    <2>2. g \in Kept(t, m, u) /\ g = stack'[u][i]
      BY <1>1, <2>1 DEF Kept
    <2>3. FrameOK(g)'
      BY <2>2
    <2> QED
      BY <2>2, <2>3 DEF FrameOK
  <1>4. Alone'
    <2> SUFFICES ASSUME NEW u \in Threads, NEW v \in Threads,
                        NEW i \in 1..Len(stack'[u]), NEW j \in 1..Len(stack'[v]),
                        Share(stack'[u][i], stack'[v][j]), ~(u = v /\ i = j)
                 PROVE  /\ stack'[u][i].at \notin {"saved", "profiled", "notify"}
                        /\ kind'[stack'[u][i].cb] \notin SelfReleased
                        /\ stack'[u][i].at = "iterating" => u = v /\ i < j
      BY DEF Alone, Share
    <2>1. /\ stack'[u][i] = stack[u][i] /\ stack'[v][j] = stack[v][j]
          /\ i \in 1..Len(stack[u]) /\ j \in 1..Len(stack[v])
          /\ stack[u][i].cb \in Callbacks
      BY <1>1 DEF Frames
    <2>2. /\ stack[u][i].at \notin {"saved", "profiled", "notify"}
          /\ kind[stack[u][i].cb] \notin SelfReleased
          /\ stack[u][i].at = "iterating" => u = v /\ i < j
      BY <2>1 DEF IInv, Alone
    <2> QED
      BY <2>1, <2>2
  <1> QED
    BY <1>2, <1>3, <1>4 DEF IInv

\* Putting a frame on what is left of the stack.
LEMMA ToppedIInv ==
    ASSUME IInv, NEW t \in Threads, NEW m \in Nat, m <= Len(stack[t]),
           m + 1 <= MaxDepth,
           m >= 1 => stack[t][m].at \in {"running", "iterating"},
           NEW f \in Frames, Topped(t, m, f), Tables', Entries', FrameOK(f)',
           \A u \in Threads : \A g \in Kept(t, m, u) :
               /\ FrameOK(g)' /\ Fits(f, t, u, g)
               /\ Share(f, g) => kind'[f.cb] \notin SelfReleased,
           \A c \in Callbacks :
               kind'[c] \in SelfReleased =>
                   kind[c] \in SelfReleased \/ (c = f.cb /\ f.at # "unprofile")
    PROVE  IInv'
  <1> DEFINE Old(u) == IF u = t THEN m ELSE Len(stack[u])
  <1>1. \A u \in Threads :
          /\ Old(u) \in Nat /\ Len(stack[u]) \in Nat /\ Old(u) <= Len(stack[u])
          /\ Len(stack'[u]) = IF u = t THEN Old(u) + 1 ELSE Old(u)
          /\ \A i \in 1..Old(u) :
               stack'[u][i] = stack[u][i] /\ stack[u][i] \in Kept(t, m, u)
    <2>1. \A u \in Threads : Len(stack[u]) \in Nat /\ stack[u] \in Seq(Frames)
      BY DEF IInv, Nested
    <2>2. \A u \in Threads : \A i \in 1..Old(u) : stack[u][i] \in Kept(t, m, u)
      BY DEF Kept
    <2>3. \A u \in Threads :
            Len(stack'[u]) = IF u = t THEN Old(u) + 1 ELSE Old(u)
      BY DEF Topped
    <2>4. \A u \in Threads : \A i \in 1..Old(u) : stack'[u][i] = stack[u][i]
      BY <2>1 DEF Topped
    <2> QED
      BY <2>1, <2>2, <2>3, <2>4
  <1>2. stack'[t][m + 1] = f /\ Len(stack'[t]) = m + 1
    BY DEF Topped
  <1>3. \A u \in Threads : \A g \in Kept(t, m, u) : g \in Frames
    BY <1>1 DEF Kept, IInv, Nested
  <1>4. \A u \in Threads : \A i \in 1..Len(stack'[u]) :
           i \in 1..Old(u) \/ (u = t /\ i = m + 1)
    BY <1>1
  <1> HIDE DEF Old
  <1>5. Nested'
    <2>1. \A u \in Threads : Len(stack'[u]) <= MaxDepth
      BY <1>1, <1>2, CallbacksAssumption DEF IInv, Nested
    <2>2. \A u \in Threads : \A i \in 1..(Len(stack'[u]) - 1) :
             stack'[u][i].at \in {"running", "iterating"}
      <3> SUFFICES ASSUME NEW u \in Threads, NEW i \in 1..(Len(stack'[u]) - 1)
                   PROVE  stack'[u][i].at \in {"running", "iterating"}
        OBVIOUS
      <3>1. /\ i \in 1..Old(u) /\ (u = t => i \in 1..m)
            /\ u # t => i \in 1..(Len(stack[u]) - 1)
        BY <1>1, <1>2, <1>4 DEF Old
      <3>2. CASE u = t /\ i = m
        BY <1>1, <3>1, <3>2
      <3>3. CASE ~(u = t /\ i = m)
        <4>1. i \in 1..(Len(stack[u]) - 1)
          BY <1>1, <3>1, <3>3
        <4> QED
          BY <1>1, <3>1, <4>1 DEF IInv, Nested
      <3> QED
        BY <3>2, <3>3
    <2> QED
      BY <2>1, <2>2 DEF Topped, Nested
  <1>6. Framed'
    <2> SUFFICES ASSUME NEW u \in Threads, NEW i \in 1..Len(stack'[u])
                 PROVE  FrameOK(stack[u][i])'
      BY DEF Framed
    <2>1. CASE i \in 1..Old(u)
      <3>1. PICK g \in Frames : g = stack'[u][i] /\ g \in Kept(t, m, u)
        BY <1>1, <1>3, <2>1
      <3>2. FrameOK(g)'
        BY <3>1
      <3> QED
        BY <3>1, <3>2 DEF FrameOK
    <2>2. CASE u = t /\ i = m + 1
      BY <1>2, <2>2 DEF FrameOK
    <2> QED
      BY <1>4, <2>1, <2>2
  <1>7. Alone'
    <2> SUFFICES ASSUME NEW u \in Threads, NEW v \in Threads,
                        NEW i \in 1..Len(stack'[u]), NEW j \in 1..Len(stack'[v]),
                        Share(stack'[u][i], stack'[v][j]), ~(u = v /\ i = j)
                 PROVE  /\ stack'[u][i].at \notin {"saved", "profiled", "notify"}
                        /\ kind'[stack'[u][i].cb] \notin SelfReleased
                        /\ stack'[u][i].at = "iterating" => u = v /\ i < j
      BY DEF Alone, Share
    <2>1. CASE i \in 1..Old(u) /\ j \in 1..Old(v)
      <3>1. /\ i \in 1..Len(stack[u]) /\ j \in 1..Len(stack[v])
            /\ stack'[u][i] = stack[u][i] /\ stack'[v][j] = stack[v][j]
        BY <1>1, <2>1
      <3>2. /\ stack[u][i].at \notin {"saved", "profiled", "notify"}
            /\ kind[stack[u][i].cb] \notin SelfReleased
            /\ stack[u][i].at = "iterating" => u = v /\ i < j
        BY <3>1 DEF IInv, Alone
      <3>3. stack[u][i].cb \in Callbacks
        BY <1>1, <1>3, <2>1 DEF Frames
      <3>4. kind'[stack[u][i].cb] \notin SelfReleased
        <4>1. SUFFICES ASSUME kind'[stack[u][i].cb] \in SelfReleased PROVE FALSE
          OBVIOUS
        <4>2. stack[u][i].cb = f.cb /\ f.at # "unprofile"
          BY <3>2, <3>3, <4>1
        <4>3. Share(f, stack[u][i]) /\ stack[u][i] \in Kept(t, m, u)
          BY <1>1, <2>1, <3>1, <4>2 DEF Share
        <4> QED
          BY <4>1, <4>2, <4>3
      <3> QED
        BY <3>1, <3>2, <3>4
    <2>2. CASE i \in 1..Old(u) /\ v = t /\ j = m + 1
      <3>1. stack[u][i] \in Kept(t, m, u) /\ stack'[u][i] = stack[u][i]
        BY <1>1, <2>2
      <3>2. Share(f, stack[u][i])
        BY <1>2, <2>2, <3>1 DEF Share
      <3>3. Fits(f, t, u, stack[u][i]) /\ kind'[f.cb] \notin SelfReleased
        BY <3>1, <3>2
      <3>4. u = t => i < j
        BY <2>2, <1>1 DEF Old
      <3> QED
        BY <2>2, <3>1, <3>2, <3>3, <3>4 DEF Fits, Share
    <2>3. CASE j \in 1..Old(v) /\ u = t /\ i = m + 1
      <3>1. stack[v][j] \in Kept(t, m, v) /\ stack'[v][j] = stack[v][j]
        BY <1>1, <2>3
      <3>2. Share(f, stack[v][j])
        BY <1>2, <2>3, <3>1 DEF Share
      <3>3. Fits(f, t, v, stack[v][j]) /\ kind'[f.cb] \notin SelfReleased
        BY <3>1, <3>2
      <3> QED
        BY <1>2, <2>3, <3>1, <3>2, <3>3 DEF Fits
    <2> QED
      BY <1>4, <2>1, <2>2, <2>3
  <1> QED
    BY <1>5, <1>6, <1>7 DEF IInv

\* The tables change, the stacks do not.
LEMMA SameIInv ==
    ASSUME IInv, UNCHANGED stack, Tables', Entries',
           \A u \in Threads : \A i \in 1..Len(stack[u]) : FrameOK(stack[u][i])',
           \A c \in Callbacks : kind'[c] \in SelfReleased => kind[c] \in SelfReleased
    PROVE  IInv'
  <1>1. Nested' /\ Framed'
    BY DEF IInv, Nested, Framed
  <1>2. Alone'
    <2> SUFFICES ASSUME NEW u \in Threads, NEW v \in Threads,
                        NEW i \in 1..Len(stack[u]), NEW j \in 1..Len(stack[v]),
                        Share(stack[u][i], stack[v][j]), ~(u = v /\ i = j)
                 PROVE  /\ stack[u][i].at \notin {"saved", "profiled", "notify"}
                        /\ kind'[stack[u][i].cb] \notin SelfReleased
                        /\ stack[u][i].at = "iterating" => u = v /\ i < j
      BY DEF Alone, Share
    <2>1. stack[u][i] \in Frames
      <3>1. stack[u] \in Seq(Frames)
        BY DEF IInv, Nested
      <3> QED
        BY <3>1
    <2>2. stack[u][i].cb \in Callbacks
      BY <2>1 DEF Frames
    <2> QED
      BY <2>2 DEF IInv, Alone
  <1> QED
    BY <1>1, <1>2 DEF IInv

-----------------------------------------------------------------------------
\* Everything on the stacks is a frame, and a callback that is not called has
\* no frame in a call.
LEMMA OnStack ==
    ASSUME IInv, NEW u \in Threads, NEW j \in 1..Len(stack[u])
    PROVE  /\ stack[u][j] \in Frames /\ FrameOK(stack[u][j])
           /\ InCall(stack[u][j].cb) = {} =>
                stack[u][j].at \notin {"called", "running"}
  <1>1. /\ stack[u] \in Seq(Frames) /\ Len(stack[u]) \in Nat
        /\ Len(stack[u]) <= MaxDepth /\ MaxDepth \in Nat
    BY CallbacksAssumption DEF IInv, Nested
  <1>2. stack[u][j] \in Frames /\ FrameOK(stack[u][j])
    BY <1>1 DEF IInv, Framed
  <1>3. ASSUME stack[u][j].at \in {"called", "running"}
        PROVE  InCall(stack[u][j].cb) # {}
    <2>1. <<u, j>> \in Threads \X (1..MaxDepth)
      BY <1>1
    <2>2. <<u, j>> \in InCall(stack[u][j].cb)
      BY <1>1, <1>3, <2>1 DEF InCall
    <2> QED
      BY <2>2
  <1> QED
    BY <1>2, <1>3

LEMMA Below ==
    ASSUME IInv, NEW t \in Threads, NEW m \in Nat, m <= Len(stack[t])
    PROVE  \A u \in Threads : \A g \in Kept(t, m, u) :
              /\ g \in Frames /\ FrameOK(g)
              /\ InCall(g.cb) = {} => g.at \notin {"called", "running"}
  <1> SUFFICES ASSUME NEW u \in Threads, NEW g \in Kept(t, m, u)
               PROVE  /\ g \in Frames /\ FrameOK(g)
                      /\ InCall(g.cb) = {} => g.at \notin {"called", "running"}
    OBVIOUS
  <1>1. Len(stack[u]) \in Nat
    BY DEF IInv, Nested
  <1>2. PICK j \in 1..(IF u = t THEN m ELSE Len(stack[u])) : g = stack[u][j]
    BY DEF Kept
  <1>3. j \in 1..Len(stack[u])
    BY <1>1, <1>2
  <1> QED
    BY <1>2, <1>3, OnStack

\* The newest frame of a thread and those it is not alone with.
LEMMA OnTop ==
    ASSUME IInv, NEW t \in Threads, stack[t] # <<>>
    PROVE  /\ Top(t) \in Frames /\ FrameOK(Top(t))
           /\ Len(stack[t]) - 1 \in Nat /\ Len(stack[t]) - 1 <= Len(stack[t])
           /\ (Len(stack[t]) - 1) + 1 <= MaxDepth
           /\ Len(stack[t]) - 1 >= 1 =>
                stack[t][Len(stack[t]) - 1].at \in {"running", "iterating"}
           /\ \A u \in Threads : \A g \in Kept(t, Len(stack[t]) - 1, u) :
                Share(Top(t), g) =>
                  /\ Top(t).at \notin {"saved", "profiled", "notify", "iterating"}
                  /\ g.at \notin {"saved", "profiled", "notify"}
                  /\ kind[Top(t).cb] \notin SelfReleased
                  /\ g.at = "iterating" => u = t
                  /\ InCall(Top(t).cb) = {<<t, Len(stack[t])>>} =>
                       g.at \notin {"called", "running"}
  <1> DEFINE n == Len(stack[t])
  <1>1. /\ stack[t] \in Seq(Frames) /\ n \in Nat \ {0} /\ n <= MaxDepth
        /\ MaxDepth \in Nat
    BY CallbacksAssumption DEF IInv, Nested
  <1>2. Top(t) = stack[t][n] /\ n \in 1..n
    BY <1>1 DEF Top
  <1>3. Top(t) \in Frames /\ FrameOK(Top(t))
    BY <1>1, <1>2 DEF IInv, Framed
  <1>4. n - 1 >= 1 => stack[t][n - 1].at \in {"running", "iterating"}
    BY <1>1 DEF IInv, Nested
  <1>5. ASSUME NEW u \in Threads, NEW g \in Kept(t, n - 1, u), Share(Top(t), g)
        PROVE  /\ Top(t).at \notin {"saved", "profiled", "notify", "iterating"}
               /\ g.at \notin {"saved", "profiled", "notify"}
               /\ kind[Top(t).cb] \notin SelfReleased
               /\ g.at = "iterating" => u = t
               /\ InCall(Top(t).cb) = {<<t, n>>} => g.at \notin {"called", "running"}
    <2>1. PICK j \in 1..(IF u = t THEN n - 1 ELSE Len(stack[u])) : g = stack[u][j]
      BY <1>5 DEF Kept
    <2>2. Len(stack[u]) \in Nat /\ Len(stack[u]) <= MaxDepth
      BY DEF IInv, Nested
    <2>3. j \in 1..Len(stack[u]) /\ ~(t = u /\ n = j) /\ ~(t = u /\ n < j)
      BY <1>1, <2>1, <2>2
    <2>4. Share(g, Top(t))
      BY <1>5 DEF Share
    <2>5. /\ Top(t).at \notin {"saved", "profiled", "notify"}
          /\ kind[Top(t).cb] \notin SelfReleased
          /\ Top(t).at = "iterating" => t = u /\ n < j
      BY <1>2, <1>5, <2>1, <2>3 DEF IInv, Alone
    <2>6. /\ g.at \notin {"saved", "profiled", "notify"}
          /\ g.at = "iterating" => u = t
      BY <1>2, <2>1, <2>3, <2>4 DEF IInv, Alone
    <2>7. ASSUME g.at \in {"called", "running"} PROVE InCall(Top(t).cb) # {<<t, n>>}
      <3>1. <<u, j>> \in Threads \X (1..MaxDepth)
        BY <1>1, <2>2, <2>3
      <3>2. <<u, j>> \in InCall(Top(t).cb)
        BY <1>5, <2>1, <2>2, <2>3, <2>7, <3>1 DEF InCall, Share
      <3> QED
        BY <2>3, <3>2
    <2> QED
      BY <2>3, <2>5, <2>6, <2>7
  <1> QED
    BY <1>1, <1>3, <1>4, <1>5

-----------------------------------------------------------------------------
\* Registering starts: a new entry.
LEMMA SaveIInv ==
    ASSUME IInv, NEW t \in Threads, NEW c \in Callbacks, NEW k \in Kinds,
           Save(t, c, k)
    PROVE  IInv'
  <1>1. PICK a \in Mallocable :
           /\ store' = [store EXCEPT ![a] = c]
           /\ ptr' = [ptr EXCEPT ![c] = a]
           /\ Enter(t, "saved", c, a)
    BY DEF Save
  <1>2. a \in Addresses /\ store[a] = None
    BY DEF Mallocable
  <1>3. Tables /\ Entries /\ state[c] = "free" /\ ptr[c] = None /\ k # None
    BY CallbacksAssumption DEF Save, IInv, Entries
  <1>4. /\ kind' = [kind EXCEPT ![c] = k]
        /\ state' = [state EXCEPT ![c] = "saved"]
        /\ store' = [store EXCEPT ![a] = c]
        /\ ptr' = [ptr EXCEPT ![c] = a]
    BY <1>1 DEF Save
  <1>5. Tables'
    BY <1>2, <1>3, <1>4 DEF Tables
  <1>6. Entries'
    <2>1. \A b \in Addresses, d \in Callbacks : store'[b] = d <=> ptr'[d] = b
      BY <1>2, <1>3, <1>4, CallbacksAssumption DEF Tables, Entries
    <2>2. \A d \in Callbacks :
            /\ state'[d] = "free" <=> ptr'[d] = None
            /\ kind'[d] = None <=> ptr'[d] = None
            /\ state'[d] = "lost" => kind'[d] \in Dropped
      BY <1>2, <1>3, <1>4, CallbacksAssumption DEF Tables, Entries
    <2> QED
      BY <2>1, <2>2 DEF Entries
  <1>7. PICK f \in Frames : f = [at |-> "saved", cb |-> c, addr |-> a]
    BY <1>2 DEF Frames, Points
  <1>0. PICK n \in Nat : n = Len(stack[t])
    BY DEF IInv, Nested
  <1>8. Topped(t, n, f)
    <2>1. "saved" \in Points
      BY DEF Points
    <2> QED
      BY <1>0, <1>1, <1>2, <1>7, <2>1, EnterShape
  <1>9. n <= Len(stack[t]) /\ n + 1 <= MaxDepth
        /\ (n >= 1 => stack[t][n].at \in {"running", "iterating"})
    <2>1. stack[t] \in Seq(Frames) /\ MaxDepth \in Nat \ {0}
      BY CallbacksAssumption DEF IInv, Nested
    <2>2. Free(t)
      BY DEF Save
    <2> QED
      BY <1>0, <2>1, <2>2 DEF Free, TopIs, Top
  <1>10. FrameOK(f)'
    BY <1>2, <1>3, <1>4, <1>7 DEF FrameOK, Tables
  <1>11. \A u \in Threads : \A g \in Kept(t, n, u) : g \in Frames /\ FrameOK(g)
    BY <1>9, Below
  <1>12. ASSUME NEW u \in Threads, NEW g \in Kept(t, n, u)
         PROVE  FrameOK(g)' /\ ~Share(f, g)
    <2>1. g \in Frames /\ FrameOK(g)
      BY <1>11
    <2>2. g.at # "unprofile" => g.cb # c
      BY <1>3, <2>1, CallbacksAssumption DEF FrameOK, Frames
    <2>3. g.at # "unprofile" => /\ ptr'[g.cb] = ptr[g.cb] /\ kind'[g.cb] = kind[g.cb]
                                /\ state'[g.cb] = state[g.cb]
      BY <1>3, <1>4, <2>1, <2>2 DEF Tables, Frames
    <2>4. FrameOK(g)'
      BY <2>1, <2>3 DEF FrameOK
    <2> QED
      BY <1>7, <2>2, <2>4 DEF Share
  <1>13. \A u \in Threads : \A g \in Kept(t, n, u) :
            /\ FrameOK(g)' /\ Fits(f, t, u, g)
            /\ Share(f, g) => kind'[f.cb] \notin SelfReleased
    BY <1>12 DEF Fits
  <1>14. \A d \in Callbacks :
            kind'[d] \in SelfReleased =>
                kind[d] \in SelfReleased \/ (d = f.cb /\ f.at # "unprofile")
    BY <1>3, <1>4, <1>7 DEF Tables
  <1> QED
    BY <1>5, <1>6, <1>8, <1>9, <1>10, <1>13, <1>14, ToppedIInv

\* C enters a trampoline.
LEMMA CallIInv ==
    ASSUME IInv, NEW t \in Threads, NEW c \in Callbacks, Call(t, c)
    PROVE  IInv'
  <1>0. PICK n \in Nat : n = Len(stack[t])
    BY DEF IInv, Nested
  <1>1. Tables /\ Entries /\ state[c] = "set"
        /\ kind[c] \notin {"buffer", "init", "private"}
    BY DEF Call, IInv
  <1>2. UNCHANGED <<store, kind, ptr, state>>
    BY DEF Call
  <1>3. Tables' /\ Entries'
    BY <1>1, <1>2 DEF Tables, Entries
  <1>4. ptr[c] \in Addresses
    BY <1>1 DEF Tables, Entries
  <1>5. PICK f \in Frames : f = [at |-> "called", cb |-> c, addr |-> ptr[c]]
    BY <1>4 DEF Frames, Points
  <1>6. Topped(t, n, f)
    <2>1. "called" \in Points
      BY DEF Points
    <2> QED
      BY <1>0, <1>4, <1>5, <2>1, EnterShape DEF Call
  <1>7. n <= Len(stack[t]) /\ n + 1 <= MaxDepth
        /\ (n >= 1 => stack[t][n].at \in {"running", "iterating"})
    <2>1. stack[t] \in Seq(Frames) /\ MaxDepth \in Nat \ {0}
      BY CallbacksAssumption DEF IInv, Nested
    <2>2. Free(t) \/ (TopIs(t, "iterating") /\ n < MaxDepth)
      BY <1>0 DEF Call
    <2> QED
      BY <1>0, <2>1, <2>2 DEF Free, TopIs, Top
  <1>8. FrameOK(f)'
    BY <1>1, <1>2, <1>5 DEF FrameOK
  <1>9. ASSUME NEW u \in Threads, NEW g \in Kept(t, n, u)
        PROVE  FrameOK(g)' /\ Fits(f, t, u, g)
    <2>1. g \in Frames /\ FrameOK(g)
      BY <1>7, Below
    <2>2. FrameOK(g)'
      BY <1>2, <2>1 DEF FrameOK
    <2>3. ASSUME Share(f, g)
          PROVE  g.at \notin {"saved", "profiled", "notify"}
      BY <1>1, <1>5, <2>1, <2>3 DEF Share, FrameOK
    <2>4. ASSUME Share(f, g), g.at = "iterating", u # t PROVE FALSE
      <3>1. kind[c] = "foreach" /\ g.cb = c
        BY <1>5, <2>1, <2>4 DEF Share, FrameOK
      <3>2. stack[t] # <<>> /\ Top(t).at = "iterating" /\ Top(t).cb = c
        BY <3>1 DEF Call, TopIs
      <3>3. g \in Kept(t, Len(stack[t]) - 1, u)
        BY <2>4 DEF Kept
      <3>4. Share(Top(t), g)
        BY <2>4, <3>1, <3>2 DEF Share
      <3> QED
        BY <3>2, <3>3, <3>4, OnTop
    <2> QED
      BY <1>5, <2>2, <2>3, <2>4 DEF Fits
  <1>10. \A u \in Threads : \A g \in Kept(t, n, u) :
            /\ FrameOK(g)' /\ Fits(f, t, u, g)
            /\ Share(f, g) => kind'[f.cb] \notin SelfReleased
    BY <1>1, <1>2, <1>5, <1>9 DEF SelfReleased
  <1>11. \A d \in Callbacks : kind'[d] = kind[d]
    BY <1>2
  <1> QED
    BY <1>3, <1>6, <1>7, <1>8, <1>10, <1>11, ToppedIInv

-----------------------------------------------------------------------------
\* A thread ends what it was at.
LEMMA PoppedIInv ==
    ASSUME IInv, NEW t \in Threads, stack[t] # <<>>, Become(t, <<>>), Tables', Entries',
           \A u \in Threads : \A g \in Kept(t, Len(stack[t]) - 1, u) : FrameOK(g)',
           \A c \in Callbacks : kind'[c] \in SelfReleased => kind[c] \in SelfReleased
    PROVE  IInv'
  <1>1. PICK m \in Nat : m = Len(stack[t]) - 1
    BY OnTop
  <1>2. m <= Len(stack[t]) /\ Cut(t, m)
    BY <1>1, OnTop, PopShape
  <1>3. \A u \in Threads : \A g \in Kept(t, m, u) : FrameOK(g)'
    BY <1>1
  <1> QED
    BY <1>2, <1>3, CutIInv

\* A thread goes on to another point.
LEMMA ReplacedIInv ==
    ASSUME IInv, NEW t \in Threads, stack[t] # <<>>, NEW f \in Frames,
           Become(t, <<f>>), Tables', Entries', FrameOK(f)',
           \A u \in Threads : \A g \in Kept(t, Len(stack[t]) - 1, u) :
               /\ FrameOK(g)' /\ Fits(f, t, u, g)
               /\ Share(f, g) => kind'[f.cb] \notin SelfReleased,
           \A c \in Callbacks :
               kind'[c] \in SelfReleased =>
                   kind[c] \in SelfReleased \/ (c = f.cb /\ f.at # "unprofile")
    PROVE  IInv'
  <1>1. PICK m \in Nat : m = Len(stack[t]) - 1
    BY OnTop
  <1>2. /\ m <= Len(stack[t]) /\ m + 1 <= MaxDepth
        /\ m >= 1 => stack[t][m].at \in {"running", "iterating"}
    BY <1>1, OnTop
  <1>3. Topped(t, m, f)
    BY <1>1, ReplaceShape
  <1>4. \A u \in Threads : \A g \in Kept(t, m, u) :
               /\ FrameOK(g)' /\ Fits(f, t, u, g)
               /\ Share(f, g) => kind'[f.cb] \notin SelfReleased
    BY <1>1
  <1> QED
    BY <1>2, <1>3, <1>4, ToppedIInv

\* A thread that is free goes into a function of go-gst.
LEMMA PushedIInv ==
    ASSUME IInv, NEW t \in Threads, Free(t), NEW f \in Frames,
           Enter(t, f.at, f.cb, f.addr), Tables', Entries', FrameOK(f)',
           \A u \in Threads : \A g \in Kept(t, Len(stack[t]), u) :
               /\ FrameOK(g)' /\ Fits(f, t, u, g)
               /\ Share(f, g) => kind'[f.cb] \notin SelfReleased,
           \A c \in Callbacks :
               kind'[c] \in SelfReleased =>
                   kind[c] \in SelfReleased \/ (c = f.cb /\ f.at # "unprofile")
    PROVE  IInv'
  <1>1. PICK m \in Nat : m = Len(stack[t])
    BY DEF IInv, Nested
  <1>2. /\ m <= Len(stack[t]) /\ m + 1 <= MaxDepth
        /\ m >= 1 => stack[t][m].at \in {"running", "iterating"}
    <2>1. stack[t] \in Seq(Frames) /\ MaxDepth \in Nat \ {0}
      BY CallbacksAssumption DEF IInv, Nested
    <2> QED
      BY <1>1, <2>1 DEF Free, TopIs, Top
  <1>3. Topped(t, m, f)
    <2>1. /\ f = [at |-> f.at, cb |-> f.cb, addr |-> f.addr]
          /\ f.at \in Points /\ f.cb \in Callbacks /\ f.addr \in Addresses
      BY DEF Frames
    <2> QED
      BY <1>1, <2>1, EnterShape
  <1>4. \A u \in Threads : \A g \in Kept(t, m, u) :
               /\ FrameOK(g)' /\ Fits(f, t, u, g)
               /\ Share(f, g) => kind'[f.cb] \notin SelfReleased
    BY <1>1
  <1> QED
    BY <1>2, <1>3, <1>4, ToppedIInv

-----------------------------------------------------------------------------
\* What releasing the entry of c does to the tables, and to the frames that
\* have nothing to do with it.
LEMMA UnrefFacts ==
    ASSUME IInv, NEW c \in Callbacks, NEW a \in Addresses, ptr[c] = a, Unref(c, a)
    PROVE  /\ Tables' /\ Entries' /\ store[a] = c
           /\ \A d \in Callbacks : kind'[d] \in SelfReleased => kind[d] \in SelfReleased
           /\ \A g \in Frames : FrameOK(g) /\ (g.cb = c => g.at = "unprofile")
                                => FrameOK(g)'
  <1>1. Tables /\ Entries
    BY DEF IInv
  <1>2. /\ store' = [store EXCEPT ![a] = None]
        /\ ptr' = [ptr EXCEPT ![c] = None]
        /\ kind' = [kind EXCEPT ![c] = None]
        /\ state' = [state EXCEPT ![c] = "free"]
    BY DEF Unref
  <1>3. Tables'
    BY <1>1, <1>2 DEF Tables
  <1>4. store[a] = c
    BY <1>1 DEF Entries
  <1>5. Entries'
    <2>1. \A b \in Addresses, d \in Callbacks : store'[b] = d <=> ptr'[d] = b
      BY <1>1, <1>2, <1>4, CallbacksAssumption DEF Tables, Entries
    <2>2. \A d \in Callbacks :
            /\ state'[d] = "free" <=> ptr'[d] = None
            /\ kind'[d] = None <=> ptr'[d] = None
            /\ state'[d] = "lost" => kind'[d] \in Dropped
      BY <1>1, <1>2 DEF Tables, Entries
    <2> QED
      BY <2>1, <2>2 DEF Entries
  <1>6. \A d \in Callbacks : kind'[d] \in SelfReleased => kind[d] \in SelfReleased
    BY <1>1, <1>2, CallbacksAssumption DEF Tables, SelfReleased, AllKinds
  <1>7. ASSUME NEW g \in Frames, FrameOK(g), g.cb = c => g.at = "unprofile"
        PROVE  FrameOK(g)'
    <2>1. CASE g.at = "unprofile"
      BY <2>1 DEF FrameOK
    <2>2. CASE g.cb # c
      <3>1. /\ ptr'[g.cb] = ptr[g.cb] /\ kind'[g.cb] = kind[g.cb]
            /\ state'[g.cb] = state[g.cb]
        BY <1>1, <1>2, <2>2 DEF Tables, Frames
      <3> QED
        BY <1>7, <3>1 DEF FrameOK
    <2> QED
      BY <1>7, <2>1, <2>2
  <1> QED
    BY <1>3, <1>4, <1>5, <1>6, <1>7

\* What letting go of c does.
LEMMA GoneFacts ==
    ASSUME IInv, NEW c \in Callbacks, state[c] # "free",
           state' = [state EXCEPT ![c] = "gone"], UNCHANGED <<store, kind, ptr>>
    PROVE  /\ Tables' /\ Entries'
           /\ \A g \in Frames :
                FrameOK(g) /\ (g.cb = c => g.at \notin {"saved", "profiled", "iterating"})
                => FrameOK(g)'
  <1>1. Tables /\ Entries
    BY DEF IInv
  <1>2. Tables' /\ Entries'
    BY <1>1 DEF Tables, Entries
  <1>3. ASSUME NEW g \in Frames, FrameOK(g),
               g.cb = c => g.at \notin {"saved", "profiled", "iterating"}
        PROVE  FrameOK(g)'
    <2>1. /\ ptr'[g.cb] = ptr[g.cb] /\ kind'[g.cb] = kind[g.cb]
          /\ state'[g.cb] = IF g.cb = c THEN "gone" ELSE state[g.cb]
      BY <1>1 DEF Tables, Frames
    <2> QED
      BY <1>3, <2>1 DEF FrameOK
  <1> QED
    BY <1>2, <1>3

\* What C taking the callback that is being registered does.
LEMMA TakesFacts ==
    ASSUME IInv, NEW t \in Threads, stack[t] # <<>>,
           Top(t).at \in {"saved", "profiled"}, NEW out, NEW as \in {"gone", "lost"},
           \A d \in out : /\ d \in Callbacks /\ state[d] = "set"
                          /\ kind[d] \in {"sync", "app", "clock", "private"},
           as = "lost" => \A d \in out : kind[d] \in Dropped,
           Takes(t, out, as)
    PROVE  /\ Tables' /\ Entries' /\ store' = store /\ kind' = kind /\ ptr' = ptr
           /\ state'[Top(t).cb] = "set" /\ \A d \in out : state'[d] = as
           /\ \A g \in Frames : FrameOK(g) /\ ~Share(Top(t), g) => FrameOK(g)'
  <1>1. Tables /\ Entries /\ store' = store /\ kind' = kind /\ ptr' = ptr
    BY DEF IInv, Takes
  <1>2. PICK c \in Callbacks : c = Top(t).cb
    BY OnTop DEF Frames
  <1>3. state[c] = "saved" /\ ptr[c] # None
    BY <1>1, <1>2, OnTop, CallbacksAssumption DEF FrameOK, Entries, Frames
  <1>4. c \notin out
    BY <1>3
  <1>5. state' = [d \in Callbacks |->
                    CASE d = c -> "set" [] d \in out -> as [] OTHER -> state[d]]
    BY <1>2 DEF Takes
  <1>6. /\ state'[c] = "set" /\ \A d \in out : state'[d] = as
        /\ \A d \in Callbacks : d # c /\ d \notin out => state'[d] = state[d]
    BY <1>4, <1>5
  <1>7. Tables'
    BY <1>1, <1>5, <1>6 DEF Tables
  <1>8. Entries'
    <2>1. \A d \in Callbacks :
            /\ state'[d] = "free" <=> ptr[d] = None
            /\ state'[d] = "lost" => kind[d] \in Dropped
      <3> SUFFICES ASSUME NEW d \in Callbacks
                   PROVE  /\ state'[d] = "free" <=> ptr[d] = None
                          /\ state'[d] = "lost" => kind[d] \in Dropped
        OBVIOUS
      <3>1. CASE d = c
        BY <1>3, <1>6, <3>1
      <3>2. CASE d \in out
        BY <1>1, <1>6, <3>2 DEF Entries
      <3>3. CASE d # c /\ d \notin out
        BY <1>1, <1>6, <3>3 DEF Entries
      <3> QED
        BY <3>1, <3>2, <3>3
    <2> QED
      BY <1>1, <2>1 DEF Entries
  <1>9. ASSUME NEW g \in Frames, FrameOK(g), ~Share(Top(t), g)
        PROVE  FrameOK(g)'
    <2>1. CASE g.at = "unprofile"
      BY <2>1 DEF FrameOK
    <2>2. CASE g.cb # c /\ g.cb \in out
      <3>1. state[g.cb] = "set" /\ kind[g.cb] \in {"sync", "app", "clock", "private"}
        BY <2>2
      <3>2. state'[g.cb] = as
        BY <1>6, <2>2
      <3> QED
        BY <1>1, <1>9, <3>1, <3>2 DEF FrameOK
    <2>3. CASE g.cb # c /\ g.cb \notin out
      <3>1. state'[g.cb] = state[g.cb]
        BY <1>6, <2>3 DEF Frames
      <3> QED
        BY <1>1, <1>9, <3>1 DEF FrameOK
    <2> QED
      BY <1>2, <1>9, <2>1, <2>2, <2>3 DEF Share
  <1> QED
    BY <1>1, <1>2, <1>6, <1>7, <1>8, <1>9

\* Nobody but the thread that registers it works with a callback.
LEMMA Unshared ==
    ASSUME IInv, NEW t \in Threads, stack[t] # <<>>,
           \/ Top(t).at \in {"saved", "profiled", "notify", "iterating"}
           \/ kind[Top(t).cb] \in SelfReleased
    PROVE  \A u \in Threads : \A g \in Kept(t, Len(stack[t]) - 1, u) :
              g \in Frames /\ FrameOK(g) /\ ~Share(Top(t), g)
  <1>1. PICK m \in Nat : m = Len(stack[t]) - 1
    BY OnTop
  <1>2. \A u \in Threads : \A g \in Kept(t, m, u) : g \in Frames /\ FrameOK(g)
    BY <1>1, OnTop, Below
  <1> QED
    BY <1>1, <1>2, OnTop

\* The registering functions that put nothing in the place of the frame.
LEMMA TakenIInv ==
    ASSUME IInv, NEW t \in Threads, stack[t] # <<>>,
           Top(t).at \in {"saved", "profiled"}, NEW out, NEW as \in {"gone", "lost"},
           \A d \in out : /\ d \in Callbacks /\ state[d] = "set"
                          /\ kind[d] \in {"sync", "app", "clock", "private"},
           as = "lost" => \A d \in out : kind[d] \in Dropped,
           Takes(t, out, as), Become(t, <<>>)
    PROVE  IInv'
  <1>1. /\ Tables' /\ Entries' /\ store' = store /\ kind' = kind /\ ptr' = ptr
        /\ \A g \in Frames : FrameOK(g) /\ ~Share(Top(t), g) => FrameOK(g)'
    BY TakesFacts, ZenonT(40)
  <1>2. \A u \in Threads : \A g \in Kept(t, Len(stack[t]) - 1, u) :
              g \in Frames /\ FrameOK(g) /\ ~Share(Top(t), g)
    BY Unshared
  <1>3. \A u \in Threads : \A g \in Kept(t, Len(stack[t]) - 1, u) : FrameOK(g)'
    BY <1>1, <1>2
  <1> QED
    BY <1>1, <1>3, PoppedIInv

\* The registering functions that go on with the callback they have saved.
LEMMA TakenOnIInv ==
    ASSUME IInv, NEW t \in Threads, TopIs(t, "saved"), NEW point \in Points,
           \/ point = "iterating" /\ kind[Top(t).cb] = "foreach"
           \/ point = "called" /\ kind[Top(t).cb] = "init",
           Takes(t, {}, "gone"), GoTo(t, point)
    PROVE  IInv'
  <1>1. stack[t] # <<>> /\ Top(t).at = "saved"
    BY DEF TopIs
  <1>2. /\ Tables' /\ Entries' /\ store' = store /\ kind' = kind /\ ptr' = ptr
        /\ state'[Top(t).cb] = "set"
        /\ \A g \in Frames : FrameOK(g) /\ ~Share(Top(t), g) => FrameOK(g)'
    BY <1>1, TakesFacts
  <1>3. PICK f \in Frames : f = [Top(t) EXCEPT !.at = point]
    BY <1>1, OnTop DEF Frames
  <1>4. f.at = point /\ f.cb = Top(t).cb /\ f.addr = Top(t).addr
    BY <1>1, <1>3, OnTop DEF Frames
  <1>5. FrameOK(f)'
    <2>1. FrameOK(Top(t)) /\ ptr[Top(t).cb] = Top(t).addr
      BY <1>1, OnTop DEF FrameOK
    <2>2. ptr'[f.cb] = f.addr /\ state'[f.cb] = "set" /\ kind'[f.cb] = kind[Top(t).cb]
      BY <1>2, <1>4, <2>1
    <2> QED
      BY <1>4, <2>2 DEF FrameOK
  <1>6. \A u \in Threads : \A g \in Kept(t, Len(stack[t]) - 1, u) :
              g \in Frames /\ FrameOK(g) /\ ~Share(Top(t), g)
    BY <1>1, Unshared
  <1>7. \A g : Share(f, g) => Share(Top(t), g)
    BY <1>1, <1>4 DEF Share
  <1>8. \A u \in Threads : \A g \in Kept(t, Len(stack[t]) - 1, u) :
               /\ FrameOK(g)' /\ Fits(f, t, u, g)
               /\ Share(f, g) => kind'[f.cb] \notin SelfReleased
    BY <1>2, <1>6, <1>7 DEF Fits
  <1>9. Become(t, <<f>>)
    BY <1>3 DEF GoTo
  <1> QED
    BY <1>1, <1>2, <1>5, <1>8, <1>9, ReplacedIInv

\* ProfileAdd and Restore: the thread goes on, the tables stay.
LEMMA MovesIInv ==
    ASSUME IInv, NEW t \in Threads, NEW point \in Points,
           \/ TopIs(t, "saved") /\ kind[Top(t).cb] = "probe" /\ point = "profiled"
           \/ TopIs(t, "called") /\ point = "running",
           GoTo(t, point), UNCHANGED <<store, kind, ptr, state>>
    PROVE  IInv'
  <1>1. stack[t] # <<>>
    BY DEF TopIs
  <1>2. PICK f \in Frames : f = [Top(t) EXCEPT !.at = point]
    <2>1. Top(t) \in Frames
      BY <1>1, OnTop
    <2> QED
      BY <2>1 DEF Frames
  <1>3. f.at = point /\ f.cb = Top(t).cb /\ f.addr = Top(t).addr
    BY <1>1, <1>2, OnTop DEF Frames
  <1>4. Tables' /\ Entries'
    BY DEF IInv, Tables, Entries
  <1>5. FrameOK(f)'
    <2>1. FrameOK(Top(t))
      BY <1>1, OnTop
    <2> QED
      BY <1>3, <2>1 DEF FrameOK, TopIs
  <1>6. PICK m \in Nat : m = Len(stack[t]) - 1
    BY <1>1, OnTop
  <1>7. \A u \in Threads : \A g \in Kept(t, m, u) : FrameOK(g)'
    <2>1. \A u \in Threads : \A g \in Kept(t, m, u) : FrameOK(g)
      BY <1>1, <1>6, OnTop, Below
    <2> QED
      BY <2>1 DEF FrameOK
  <1>8. ASSUME NEW u \in Threads, NEW g \in Kept(t, m, u), Share(f, g)
        PROVE  Fits(f, t, u, g) /\ kind'[f.cb] \notin SelfReleased
    <2>1. Share(Top(t), g)
      BY <1>3, <1>8 DEF Share, TopIs
    <2>2. /\ Top(t).at \notin {"saved", "profiled", "notify", "iterating"}
          /\ g.at \notin {"saved", "profiled", "notify"}
          /\ kind[Top(t).cb] \notin SelfReleased
          /\ g.at = "iterating" => u = t
      BY <1>1, <1>6, <1>8, <2>1, OnTop
    <2> QED
      BY <1>3, <2>2 DEF Fits, TopIs
  <1>9. \A u \in Threads : \A g \in Kept(t, Len(stack[t]) - 1, u) :
               /\ FrameOK(g)' /\ Fits(f, t, u, g)
               /\ Share(f, g) => kind'[f.cb] \notin SelfReleased
    BY <1>6, <1>7, <1>8 DEF Fits
  <1>10. Become(t, <<f>>) /\ \A c \in Callbacks : kind'[c] = kind[c]
    BY <1>2 DEF GoTo
  <1> QED
    BY <1>1, <1>4, <1>5, <1>9, <1>10, ReplacedIInv

\* C does not keep the callback.
LEMMA LosesIInv ==
    ASSUME IInv, NEW t \in Threads, TopIs(t, "saved"),
           kind[Top(t).cb] \in Dropped, Loses(t)
    PROVE  IInv'
  <1>1. stack[t] # <<>> /\ Top(t).at = "saved"
    BY DEF TopIs
  <1>2. PICK c \in Callbacks : c = Top(t).cb
    BY <1>1, OnTop DEF Frames
  <1>3. /\ state' = [state EXCEPT ![c] = "lost"] /\ Become(t, <<>>)
        /\ store' = store /\ kind' = kind /\ ptr' = ptr
    BY <1>2 DEF Loses
  <1>4. Tables /\ Entries /\ state[c] = "saved"
    BY <1>1, <1>2, OnTop DEF IInv, FrameOK
  <1>5. Tables' /\ Entries'
    BY <1>2, <1>3, <1>4 DEF Tables, Entries
  <1>6. \A u \in Threads : \A g \in Kept(t, Len(stack[t]) - 1, u) :
              g \in Frames /\ FrameOK(g) /\ ~Share(Top(t), g)
    BY <1>1, Unshared
  <1>7. ASSUME NEW u \in Threads, NEW g \in Kept(t, Len(stack[t]) - 1, u)
        PROVE  FrameOK(g)'
    <2>1. g \in Frames /\ FrameOK(g) /\ (g.cb = c => g.at = "unprofile")
      BY <1>1, <1>2, <1>6 DEF Share
    <2>2. g.cb # c => state'[g.cb] = state[g.cb]
      BY <1>3, <1>4, <2>1 DEF Tables, Frames
    <2> QED
      BY <1>3, <2>1, <2>2 DEF FrameOK
  <1> QED
    BY <1>1, <1>3, <1>5, <1>7, PoppedIInv

\* The old callbacks that are replaced, and the notify for the one that is not
\* being called.
LEMMA SetCallbacksIInv ==
    ASSUME IInv, NEW t \in Threads, SetCallbacks(t)
    PROVE  IInv'
  <1>1. stack[t] # <<>> /\ Top(t).at = "saved"
    BY DEF SetCallbacks, TopIs
  <1>2. PICK k : k = kind[Top(t).cb] /\ k \in {"sync", "app"}
    BY DEF SetCallbacks
  <1>3. PICK out : out = Current(k)
    OBVIOUS
  <1>4. PICK idle : idle = {c \in out : InCall(c) = {}}
    OBVIOUS
  <1>5. Takes(t, out, "gone") /\ Become(t, NotifyFrames(idle))
    BY <1>2, <1>3, <1>4 DEF SetCallbacks
  <1>6. \A d \in out : /\ d \in Callbacks /\ state[d] = "set" /\ kind[d] = k
                       /\ kind[d] \in {"sync", "app", "clock", "private"}
    BY <1>2, <1>3 DEF Current
  <1>7. CASE idle = {}
    <2>1. Become(t, <<>>)
      BY <1>5, <1>7 DEF NotifyFrames
    <2> QED
      BY <1>1, <1>5, <1>6, <2>1, TakenIInv
  <1>8. CASE idle # {}
    <2>1. PICK c \in Callbacks : c \in idle /\ c = CHOOSE x \in idle : TRUE
      BY <1>4, <1>6, <1>8
    <2>2. c \in out /\ InCall(c) = {} /\ state[c] = "set" /\ kind[c] \in {"sync", "app"}
      BY <1>2, <1>4, <1>6, <2>1
    <2>3. NotifyFrames(idle) = <<[at |-> "notify", cb |-> c, addr |-> ptr[c]]>>
      <3>1. \A x \in idle : kind[x] # "collect"
        BY <1>2, <1>4, <1>6
      <3> QED
        BY <1>8, <2>1, <3>1 DEF NotifyFrames
    <2>4. ptr[c] \in Addresses
      BY <2>2 DEF IInv, Tables, Entries
    <2>5. PICK f \in Frames : f = [at |-> "notify", cb |-> c, addr |-> ptr[c]]
      BY <2>4 DEF Frames, Points
    <2>6. Become(t, <<f>>)
      BY <1>5, <2>3, <2>5
    <2>7. /\ Tables' /\ Entries' /\ store' = store /\ kind' = kind /\ ptr' = ptr
          /\ \A d \in out : state'[d] = "gone"
          /\ \A g \in Frames : FrameOK(g) /\ ~Share(Top(t), g) => FrameOK(g)'
      BY <1>1, <1>5, <1>6, TakesFacts
    <2>8. FrameOK(f)'
      BY <2>2, <2>5, <2>7 DEF FrameOK
    <2>9. PICK m \in Nat : m = Len(stack[t]) - 1
      BY <1>1, OnTop
    <2>10. \A u \in Threads : \A g \in Kept(t, m, u) :
              /\ g \in Frames /\ FrameOK(g) /\ ~Share(Top(t), g)
              /\ InCall(g.cb) = {} => g.at \notin {"called", "running"}
      BY <1>1, <2>9, OnTop, Unshared, Below
    <2>11. ASSUME NEW u \in Threads, NEW g \in Kept(t, m, u)
           PROVE  FrameOK(g)' /\ ~Share(f, g)
      <3>1. FrameOK(g)'
        BY <2>7, <2>10
      <3>2. ASSUME Share(f, g) PROVE FALSE
        <4>1. g.cb = c /\ g.at # "unprofile" /\ g.at \in Points
          BY <2>5, <2>10, <3>2 DEF Share, Frames
        <4> QED
          BY <2>2, <2>10, <4>1 DEF FrameOK, Points
      <3> QED
        BY <3>1, <3>2
    <2>12. \A u \in Threads : \A g \in Kept(t, Len(stack[t]) - 1, u) :
               /\ FrameOK(g)' /\ Fits(f, t, u, g)
               /\ Share(f, g) => kind'[f.cb] \notin SelfReleased
      BY <2>9, <2>11 DEF Fits
    <2> QED
      BY <1>1, <2>6, <2>7, <2>8, <2>12, ReplacedIInv
  <1> QED
    BY <1>7, <1>8

\* Registering, whatever the kind.
LEMMA RegisterIInv ==
    ASSUME IInv, NEW t \in Threads,
           \/ AddWatch(t) \/ SetCallbacks(t) \/ WaitAsync(t) \/ SetElementPrivate(t)
           \/ Register(t) \/ WrapCollectPads(t) \/ BeginForEach(t) \/ CallInit(t)
    PROVE  IInv'
  <1>1. ASSUME stack[t] # <<>>, Top(t).at \in {"saved", "profiled"},
               Takes(t, {}, "gone"), Become(t, <<>>)
        PROVE  IInv'
    BY <1>1, TakenIInv
  <1>2. ASSUME NEW k \in {"clock", "private"}, stack[t] # <<>>, Top(t).at = "saved",
               Takes(t, Current(k), "lost"), Become(t, <<>>)
        PROVE  IInv'
    <2>1. PICK out : out = Current(k)
      OBVIOUS
    <2>2. \A d \in out : /\ d \in Callbacks /\ state[d] = "set"
                         /\ kind[d] \in {"sync", "app", "clock", "private"}
                         /\ kind[d] \in Dropped
      BY <2>1 DEF Current, Dropped
    <2>3. Takes(t, out, "lost")
      BY <1>2, <2>1
    <2> QED
      BY <1>2, <2>2, <2>3, TakenIInv
  <1>3. CASE AddWatch(t)
    BY <1>1, <1>3, LosesIInv DEF AddWatch, TopIs, Dropped
  <1>4. CASE SetCallbacks(t)
    BY <1>4, SetCallbacksIInv
  <1>5. CASE WaitAsync(t)
    BY <1>2, <1>5 DEF WaitAsync, TopIs
  <1>6. CASE SetElementPrivate(t)
    BY <1>2, <1>6 DEF SetElementPrivate, TopIs
  <1>7. CASE Register(t)
    BY <1>1, <1>7 DEF Register, TopIs
  <1>8. CASE BeginForEach(t)
    BY <1>8, TakenOnIInv DEF BeginForEach, Points
  <1>9. CASE CallInit(t)
    BY <1>9, TakenOnIInv, LosesIInv DEF CallInit, Points, Dropped
  <1>10. CASE WrapCollectPads(t)
    BY <1>10, LosesIInv DEF WrapCollectPads, Dropped
  <1> QED
    BY <1>3, <1>4, <1>5, <1>6, <1>7, <1>8, <1>9, <1>10

-----------------------------------------------------------------------------
\* A function of the application returns: its frame goes, or becomes the
\* notify when it was the last call of a callback that was let go.
LEMMA ReturnIInv ==
    ASSUME IInv, NEW t \in Threads, Return(t)
    PROVE  IInv'
  <1>1. stack[t] # <<>> /\ Top(t).at = "running" /\ FrameOK(Top(t))
    BY OnTop DEF Return, TopIs
  <1>2. PICK c \in Callbacks : c = Top(t).cb
    BY <1>1, OnTop DEF Frames
  <1>3. /\ Tables /\ Entries /\ kind[c] \notin SelfReleased
        /\ state[c] \in {"set", "gone", "lost"} /\ ptr[c] \in Addresses
    BY <1>1, <1>2 DEF IInv, Tables, Entries, FrameOK, Return
  <1>4. PICK m \in Nat : m = Len(stack[t]) - 1
    BY <1>1, OnTop
  <1>5. store' = store /\ kind' = kind /\ ptr' = ptr
    BY DEF Return
  <1>6. \/ state' = state
        \/ state' = [state EXCEPT ![c] = "gone"] /\ kind[c] # "foreach"
    BY <1>2, <1>3 DEF Return, Once, SelfReleased
  <1>7. \A u \in Threads : \A g \in Kept(t, m, u) :
           /\ g \in Frames /\ FrameOK(g)
           /\ Share(Top(t), g) =>
                /\ g.at \notin {"saved", "profiled", "notify"}
                /\ InCall(c) = {<<t, Len(stack[t])>>} => g.at \notin {"called", "running"}
    BY <1>1, <1>2, <1>4, OnTop, Below
  <1>8. Tables' /\ Entries'
    <2>1. CASE state' = state
      BY <1>3, <1>5, <2>1 DEF Tables, Entries
    <2>2. CASE state' # state
      BY <1>3, <1>5, <1>6, <2>2, GoneFacts
    <2> QED
      BY <2>1, <2>2
  <1>9. ASSUME NEW u \in Threads, NEW g \in Kept(t, m, u)
        PROVE  FrameOK(g)'
    <2>1. g \in Frames /\ FrameOK(g)
      BY <1>7
    <2>2. CASE state' = state
      BY <1>5, <2>1, <2>2 DEF FrameOK
    <2>3. CASE state' # state
      <3>1. g.cb = c => g.at \notin {"saved", "profiled", "iterating"}
        BY <1>1, <1>2, <1>3, <1>6, <1>7, <2>1, <2>3 DEF Share, FrameOK
      <3> QED
        BY <1>3, <1>5, <1>6, <2>1, <2>3, <3>1, GoneFacts
    <2> QED
      BY <2>2, <2>3
  <1>10. \A d \in Callbacks : kind'[d] = kind[d]
    BY <1>5
  <1>11. ASSUME Become(t, <<>>) PROVE IInv'
    BY <1>1, <1>4, <1>8, <1>9, <1>10, <1>11, PoppedIInv
  <1>12. ASSUME state'[c] = "gone", InCall(c) = {<<t, Len(stack[t])>>},
                kind[c] # "collect",
                Become(t, <<[at |-> "notify", cb |-> c, addr |-> ptr[c]]>>)
         PROVE  IInv'
    <2>1. PICK f \in Frames : f = [at |-> "notify", cb |-> c, addr |-> ptr[c]]
      BY <1>3 DEF Frames, Points
    <2>2. FrameOK(f)' /\ Become(t, <<f>>)
      BY <1>5, <1>12, <2>1 DEF FrameOK
    <2>3. ASSUME NEW u \in Threads, NEW g \in Kept(t, m, u) PROVE ~Share(f, g)
      <3>1. SUFFICES ASSUME Share(f, g) PROVE FALSE
        OBVIOUS
      <3>2. g \in Frames /\ g.cb = c /\ g.at # "unprofile" /\ Share(Top(t), g)
        BY <1>1, <1>2, <1>7, <2>1, <3>1 DEF Share
      <3>3. g.at = "iterating"
        BY <1>7, <1>12, <3>2 DEF Frames, Points
      <3>4. kind[c] = "foreach" /\ state[c] = "set"
        BY <1>7, <3>2, <3>3 DEF FrameOK
      <3> QED
        BY <1>6, <1>12, <3>4
    <2>4. \A u \in Threads : \A g \in Kept(t, Len(stack[t]) - 1, u) :
               /\ FrameOK(g)' /\ Fits(f, t, u, g)
               /\ Share(f, g) => kind'[f.cb] \notin SelfReleased
      BY <1>4, <1>9, <2>3 DEF Fits
    <2> QED
      BY <1>1, <1>8, <1>10, <2>2, <2>4, ReplacedIInv
  <1>13. NotifyFrames({c}) = IF kind[c] = "collect" THEN <<>>
                             ELSE <<[at |-> "notify", cb |-> c, addr |-> ptr[c]]>>
    <2>1. (CHOOSE x \in {c} : TRUE) = c
      OBVIOUS
    <2> QED
      BY <2>1 DEF NotifyFrames
  <1>14. \/ Become(t, <<>>)
         \/ /\ Become(t, NotifyFrames({c}))
            /\ InCall(c) = {<<t, Len(stack[t])>>}
            /\ state'[c] = "gone"
    <2> DEFINE ends(gone) ==
                 Become(t, IF gone /\ InCall(c) = {<<t, Len(stack[t])>>}
                           THEN NotifyFrames({c}) ELSE <<>>)
    <2>1. \/ state' = state /\ ends(state[c] = "gone")
          \/ state' = [state EXCEPT ![c] = "gone"] /\ ends(TRUE)
      BY <1>2 DEF Return
    <2>2. CASE state' = state /\ ends(state[c] = "gone")
      BY <2>2
    <2>3. CASE state' = [state EXCEPT ![c] = "gone"] /\ ends(TRUE)
      <3>1. state'[c] = "gone"
        BY <1>3, <2>3 DEF Tables
      <3> QED
        BY <2>3, <3>1
    <2> QED
      BY <2>1, <2>2, <2>3
  <1> QED
    BY <1>11, <1>12, <1>13, <1>14

\* Whoever releases an entry is the only one who works with it.
LEMMA ReleasingIInv ==
    ASSUME IInv, NEW t \in Threads,
           ReturnReleasing(t) \/ EndForEach(t) \/ Notify(t)
    PROVE  IInv' /\ store[Top(t).addr] = Top(t).cb
  <1>1. /\ stack[t] # <<>> /\ Top(t).at # "unprofile"
        /\ Unref(Top(t).cb, Top(t).addr)
        /\ \/ Become(t, <<>>)
           \/ GoTo(t, "unprofile")
    BY DEF ReturnReleasing, EndForEach, Notify, TopIs
  <1>2. \/ Top(t).at \in {"saved", "profiled", "notify", "iterating"}
        \/ kind[Top(t).cb] \in SelfReleased
    BY DEF ReturnReleasing, EndForEach, Notify, TopIs
  <1>3. PICK c \in Callbacks, a \in Addresses : c = Top(t).cb /\ a = Top(t).addr
    BY <1>1, OnTop DEF Frames
  <1>4. ptr[c] = a /\ Unref(c, a)
    BY <1>1, <1>3, OnTop DEF FrameOK
  <1>5. /\ Tables' /\ Entries' /\ store[a] = c
        /\ \A d \in Callbacks : kind'[d] \in SelfReleased => kind[d] \in SelfReleased
        /\ \A g \in Frames : FrameOK(g) /\ (g.cb = c => g.at = "unprofile")
                             => FrameOK(g)'
    BY <1>4, UnrefFacts
  <1>6. \A u \in Threads : \A g \in Kept(t, Len(stack[t]) - 1, u) :
              g \in Frames /\ FrameOK(g) /\ ~Share(Top(t), g)
    BY <1>1, <1>2, Unshared
  <1>7. \A u \in Threads : \A g \in Kept(t, Len(stack[t]) - 1, u) : FrameOK(g)'
    BY <1>1, <1>3, <1>5, <1>6 DEF Share
  <1>8. CASE Become(t, <<>>)
    BY <1>1, <1>3, <1>5, <1>7, <1>8, PoppedIInv
  <1>9. CASE GoTo(t, "unprofile")
    <2>1. PICK f \in Frames : f = [at |-> "unprofile", cb |-> c, addr |-> a]
      BY DEF Frames, Points
    <2>2. f.at = "unprofile" /\ Become(t, <<f>>)
      <3>1. Top(t) \in Frames
        BY <1>1, OnTop
      <3>2. f = [Top(t) EXCEPT !.at = "unprofile"]
        BY <1>3, <2>1, <3>1 DEF Frames
      <3> QED
        BY <1>9, <2>1, <3>2 DEF GoTo
    <2>3. FrameOK(f)'
      BY <2>2 DEF FrameOK
    <2>4. \A u \in Threads : \A g \in Kept(t, Len(stack[t]) - 1, u) :
               /\ FrameOK(g)' /\ Fits(f, t, u, g)
               /\ Share(f, g) => kind'[f.cb] \notin SelfReleased
      BY <1>7, <2>2 DEF Fits, Share
    <2> QED
      BY <1>1, <1>3, <1>5, <2>2, <2>3, <2>4, ReplacedIInv
  <1> QED
    BY <1>1, <1>3, <1>5, <1>8, <1>9

\* The second half of a notify.
LEMMA ProfileRemoveIInv ==
    ASSUME IInv, NEW t \in Threads, ProfileRemove(t)
    PROVE  IInv'
  <1>1. /\ stack[t] # <<>> /\ Become(t, <<>>)
        /\ store' = store /\ kind' = kind /\ ptr' = ptr /\ state' = state
    BY DEF ProfileRemove, TopIs
  <1>2. Tables' /\ Entries'
    BY <1>1 DEF IInv, Tables, Entries
  <1>3. PICK m \in Nat : m = Len(stack[t]) - 1
    BY <1>1, OnTop
  <1>4. \A u \in Threads : \A g \in Kept(t, m, u) : FrameOK(g)
    BY <1>1, <1>3, OnTop, Below
  <1>5. \A u \in Threads : \A g \in Kept(t, Len(stack[t]) - 1, u) : FrameOK(g)'
    BY <1>1, <1>3, <1>4 DEF FrameOK
  <1> QED
    BY <1>1, <1>2, <1>5, PoppedIInv

-----------------------------------------------------------------------------
\* A callback is removed: nobody works with it but those who are calling it.
LEMMA RemoveIInv ==
    ASSUME IInv, NEW t \in Threads, NEW c \in Callbacks, Remove(t, c)
    PROVE  IInv'
  <1>1. /\ Free(t) /\ state[c] = "set" /\ ptr[c] \in Addresses
        /\ kind[c] \in {"watch", "sync", "app", "probe", "clock", "buffer"}
        /\ Tables
    BY DEF Remove, IInv, Tables, Entries
  <1>2. /\ state' = [state EXCEPT ![c] = "gone"]
        /\ store' = store /\ kind' = kind /\ ptr' = ptr
    BY DEF Remove
  <1>3. state'[c] = "gone"
    BY <1>1, <1>2 DEF Tables
  <1>4. /\ Tables' /\ Entries'
        /\ \A g \in Frames :
             FrameOK(g) /\ (g.cb = c => g.at \notin {"saved", "profiled", "iterating"})
             => FrameOK(g)'
    BY <1>1, <1>2, GoneFacts
  <1>5. PICK n \in Nat : n = Len(stack[t])
    BY DEF IInv, Nested
  <1>6. \A u \in Threads : \A g \in Kept(t, n, u) :
           /\ g \in Frames /\ FrameOK(g)
           /\ InCall(g.cb) = {} => g.at \notin {"called", "running"}
    BY <1>5, Below
  <1>7. ASSUME NEW u \in Threads, NEW g \in Kept(t, n, u)
        PROVE  /\ FrameOK(g)'
               /\ g.cb = c /\ g.at # "unprofile" =>
                    g.at \in {"called", "running"} /\ kind[c] # "buffer"
    <2>1. g \in Frames /\ FrameOK(g)
      BY <1>6
    <2>2. g.cb = c => g.at \in {"called", "running", "unprofile"}
      BY <1>1, <2>1 DEF FrameOK, Frames, Points
    <2>3. g.cb = c /\ kind[c] = "buffer" => g.at = "unprofile"
      BY <1>1, <2>1, <2>2 DEF FrameOK
    <2> QED
      BY <1>4, <2>1, <2>2, <2>3
  <1>8. \A d \in Callbacks : kind'[d] = kind[d]
    BY <1>2
  <1>9. ASSUME NEW point \in {"called", "notify"},
               Enter(t, point, c, ptr[c]),
               \A u \in Threads : \A g \in Kept(t, n, u) :
                   g.cb = c => g.at = "unprofile",
               point = "notify" => kind[c] # "buffer"
        PROVE  IInv'
    <2>1. PICK f \in Frames : f = [at |-> point, cb |-> c, addr |-> ptr[c]]
      BY <1>1 DEF Frames, Points
    <2>2. FrameOK(f)'
      BY <1>1, <1>2, <1>3, <2>1 DEF FrameOK
    <2>3. \A u \in Threads : \A g \in Kept(t, Len(stack[t]), u) :
             /\ FrameOK(g)' /\ Fits(f, t, u, g)
             /\ Share(f, g) => kind'[f.cb] \notin SelfReleased
      BY <1>5, <1>7, <1>9, <2>1 DEF Fits, Share
    <2>4. Enter(t, f.at, f.cb, f.addr)
      BY <1>9, <2>1
    <2> QED
      BY <1>1, <1>4, <1>8, <2>2, <2>3, <2>4, PushedIInv
  <1>10. CASE kind[c] = "buffer"
    <2>1. Enter(t, "called", c, ptr[c])
      BY <1>10 DEF Remove
    <2> QED
      BY <1>7, <1>9, <1>10, <2>1
  <1>11. CASE kind[c] # "buffer" /\ InCall(c) = {}
    <2>1. Enter(t, "notify", c, ptr[c])
      BY <1>11 DEF Remove
    <2> QED
      BY <1>6, <1>7, <1>9, <1>11, <2>1
  <1>12. CASE kind[c] # "buffer" /\ InCall(c) # {}
    <2>1. stack' = stack
      BY <1>12 DEF Remove
    <2>2. ASSUME NEW u \in Threads, NEW i \in 1..Len(stack[u])
          PROVE  FrameOK(stack[u][i])'
      <3>1. PICK g : g = stack[u][i]
        OBVIOUS
      <3>2. g \in Kept(t, n, u)
        BY <1>5, <3>1 DEF Kept
      <3>3. FrameOK(g)' /\ g = stack'[u][i]
        BY <1>7, <2>1, <3>1, <3>2
      <3> QED
        BY <3>3 DEF FrameOK
    <2> QED
      BY <1>4, <1>8, <2>1, <2>2, SameIInv
  <1> QED
    BY <1>10, <1>11, <1>12

\* Nobody but C works with collect pads that C has.
CollectFrame(g, c) ==
    /\ g \in Frames /\ FrameOK(g)
    /\ g.cb = c => /\ g.at \notin {"saved", "profiled", "iterating", "notify"}
                   /\ InCall(c) = {} => g.at = "unprofile"

LEMMA CollectFrames ==
    ASSUME IInv, NEW c \in Callbacks, kind[c] = "collect",
           state[c] \in {"set", "gone", "lost"}
    PROVE  \A u \in Threads : \A i \in 1..Len(stack[u]) : CollectFrame(stack[u][i], c)
  <1> SUFFICES ASSUME NEW u \in Threads, NEW i \in 1..Len(stack[u])
               PROVE  CollectFrame(stack[u][i], c)
    OBVIOUS
  <1>1. PICK g : g = stack[u][i]
    OBVIOUS
  <1>2. /\ g \in Frames /\ FrameOK(g)
        /\ InCall(g.cb) = {} => g.at \notin {"called", "running"}
    BY <1>1, OnStack
  <1>3. g.cb = c => g.at \notin {"saved", "profiled", "iterating", "notify"}
    BY <1>2 DEF FrameOK
  <1> QED
    BY <1>1, <1>2, <1>3 DEF CollectFrame, Frames, Points

\* Collect pads are stopped and then freed.
LEMMA CollectPadsIInv ==
    ASSUME IInv, NEW c \in Callbacks, "early free" \notin Slips,
           StopCollecting(c) \/ \E t \in Threads : FreeCollectPads(t, c)
    PROVE  IInv' /\ (panicked' <=> panicked)
  <1>1. /\ kind[c] = "collect" /\ state[c] \in {"set", "gone", "lost"} /\ stack' = stack
        /\ ptr[c] \in Addresses /\ Tables /\ Entries
    <2>1. /\ kind[c] = "collect" /\ state[c] \in {"set", "gone", "lost"}
          /\ stack' = stack
      <3>1. CASE StopCollecting(c)
        BY <3>1 DEF StopCollecting
      <3>2. CASE \E t \in Threads : FreeCollectPads(t, c)
        BY <3>2 DEF FreeCollectPads
      <3> QED
        BY <3>1, <3>2
    <2>2. Tables /\ Entries
      BY DEF IInv
    <2>3. ptr[c] \in Addresses
      <3>1. ptr[c] # None
        BY <2>1, <2>2 DEF Entries
      <3>2. ptr[c] \in Addresses \cup {None}
        BY <2>2 DEF Tables
      <3> QED
        BY <3>1, <3>2
    <2> QED
      BY <2>1, <2>2, <2>3
  <1>2. \A u \in Threads : \A i \in 1..Len(stack[u]) : CollectFrame(stack[u][i], c)
    BY <1>1, CollectFrames
  <1>3. CASE StopCollecting(c)
    <2>1. /\ state' = [state EXCEPT ![c] = "gone"] /\ panicked' = panicked
          /\ store' = store /\ kind' = kind /\ ptr' = ptr
      BY <1>3 DEF StopCollecting
    <2>2. /\ Tables' /\ Entries'
          /\ \A g \in Frames :
               FrameOK(g) /\ (g.cb = c => g.at \notin {"saved", "profiled", "iterating"})
               => FrameOK(g)'
      BY <1>1, <2>1, GoneFacts
    <2>3. ASSUME NEW u \in Threads, NEW i \in 1..Len(stack[u])
          PROVE  FrameOK(stack[u][i])'
      <3>1. PICK g : g = stack[u][i]
        OBVIOUS
      <3>2. CollectFrame(g, c)
        BY <1>2, <3>1
      <3>3. FrameOK(g)' /\ g = stack'[u][i]
        BY <1>1, <2>2, <3>1, <3>2 DEF CollectFrame
      <3> QED
        BY <3>3 DEF FrameOK
    <2> QED
      BY <1>1, <2>1, <2>2, <2>3, SameIInv
  <1>4. CASE \E t \in Threads : FreeCollectPads(t, c)
    <2>1. PICK a \in Addresses : a = ptr[c]
      BY <1>1
    <2>2. InCall(c) = {} /\ Unref(c, a)
      BY <1>4, <2>1 DEF FreeCollectPads
    <2>3. /\ Tables' /\ Entries' /\ store[a] = c
          /\ \A d \in Callbacks : kind'[d] \in SelfReleased => kind[d] \in SelfReleased
          /\ \A g \in Frames : FrameOK(g) /\ (g.cb = c => g.at = "unprofile")
                               => FrameOK(g)'
      BY <2>1, <2>2, UnrefFacts
    <2>4. ASSUME NEW u \in Threads, NEW i \in 1..Len(stack[u])
          PROVE  FrameOK(stack[u][i])'
      <3>1. PICK g : g = stack[u][i]
        OBVIOUS
      <3>2. CollectFrame(g, c)
        BY <1>2, <3>1
      <3>3. FrameOK(g)' /\ g = stack'[u][i]
        BY <1>1, <2>2, <2>3, <3>1, <3>2 DEF CollectFrame
      <3> QED
        BY <3>3 DEF FrameOK
    <2>5. IInv'
      BY <1>1, <2>3, <2>4, SameIInv
    <2>6. panicked' <=> panicked
      BY <2>2, <2>3, CallbacksAssumption DEF Unref
    <2> QED
      BY <2>5, <2>6
  <1> QED
    BY <1>3, <1>4

\* A setter of collect pads moves callbacks that nobody is registering.
LEMMA SetCollectIInv ==
    ASSUME IInv, NEW t \in Threads, NEW c \in Callbacks, SetCollectFunction(t, c)
    PROVE  IInv'
  <1>1. /\ store' = store /\ kind' = kind /\ ptr' = ptr /\ stack' = stack
        /\ Tables /\ Entries
    BY DEF SetCollectFunction, IInv
  <1>2. PICK out \in SUBSET (Current("collect") \ {c}) :
           state' = [x \in Callbacks |->
                       CASE x = c -> "set" [] x \in out -> "gone" [] OTHER -> state[x]]
    BY DEF SetCollectFunction
  <1>3. ASSUME NEW d \in Callbacks
        PROVE  \/ state'[d] = state[d]
               \/ /\ kind[d] = "collect" /\ state[d] \in {"set", "gone", "lost"}
                  /\ state'[d] \in {"set", "gone"}
    <2>1. CASE d = c
      BY <1>2, <2>1 DEF SetCollectFunction
    <2>2. CASE d # c /\ d \in out
      BY <1>2, <2>2 DEF Current
    <2>3. CASE d # c /\ d \notin out
      BY <1>2, <2>3
    <2> QED
      BY <2>1, <2>2, <2>3
  <1>4. Tables'
    <2>1. state' \in [Callbacks -> {"free", "saved", "set", "gone", "lost"}]
      <3>1. \A d \in Callbacks : state'[d] \in {"free", "saved", "set", "gone", "lost"}
        BY <1>1, <1>3 DEF Tables
      <3> QED
        BY <1>2, <3>1
    <2> QED
      BY <1>1, <2>1 DEF Tables
  <1>5. Entries'
    BY <1>1, <1>3 DEF Entries
  <1>6. ASSUME NEW u \in Threads, NEW i \in 1..Len(stack[u])
        PROVE  FrameOK(stack[u][i])'
    <2>1. PICK g : g = stack[u][i]
      OBVIOUS
    <2>2. g \in Frames /\ FrameOK(g) /\ g.cb \in Callbacks
      BY <2>1, OnStack DEF Frames
    <2>3. FrameOK(g)'
      <3>1. CASE state'[g.cb] = state[g.cb]
        BY <1>1, <2>2, <3>1 DEF FrameOK
      <3>2. CASE state'[g.cb] # state[g.cb]
        <4>1. /\ kind[g.cb] = "collect" /\ state[g.cb] \in {"set", "gone", "lost"}
              /\ state'[g.cb] \in {"set", "gone"}
          BY <1>3, <2>2, <3>2
        <4>2. CollectFrame(g, g.cb)
          BY <2>1, <2>2, <4>1, CollectFrames
        <4> QED
          BY <1>1, <2>2, <4>1, <4>2 DEF CollectFrame, FrameOK
      <3> QED
        BY <3>1, <3>2
    <2> QED
      BY <1>1, <2>1, <2>3 DEF FrameOK
  <1> QED
    BY <1>1, <1>4, <1>5, <1>6, SameIInv

-----------------------------------------------------------------------------
LEMMA InitIInv == Init => IInv
  <1> SUFFICES ASSUME Init PROVE IInv
    OBVIOUS
  <1>1. Tables /\ Entries
    BY CallbacksAssumption DEF Init, Tables, Entries
  <1>2. \A t \in Threads : stack[t] = <<>> /\ Len(stack[t]) = 0
    BY DEF Init
  <1>3. Framed /\ Alone
    BY <1>2 DEF Framed, Alone
  <1>4. Nested
    BY <1>2, CallbacksAssumption DEF Init, Nested
  <1> QED
    BY <1>1, <1>3, <1>4 DEF IInv

LEMMA NextIInv ==
    ASSUME "early free" \notin Slips, IInv, [Next]_vars
    PROVE  IInv'
  <1>1. CASE UNCHANGED vars
    <2>1. Tables' /\ Entries' /\ stack' = stack /\ kind' = kind
      BY <1>1 DEF IInv, Tables, Entries, vars
    <2>2. \A u \in Threads : \A i \in 1..Len(stack[u]) : FrameOK(stack[u][i])'
      <3>1. \A f : FrameOK(f)' <=> FrameOK(f)
        BY <1>1 DEF FrameOK, vars
      <3>2. \A u \in Threads : \A i \in 1..Len(stack[u]) : FrameOK(stack[u][i])
        BY DEF IInv, Framed
      <3>3. stack' = stack
        BY <1>1 DEF vars
      <3> QED
        BY <3>1, <3>2, <3>3
    <2> QED
      BY <2>1, <2>2, SameIInv
  <1>2. ASSUME NEW t \in Threads, ThreadStep(t) PROVE IInv'
    <2>1. CASE ProfileAdd(t)
      BY <2>1, MovesIInv DEF ProfileAdd, Points
    <2>2. CASE Restore(t)
      BY <2>2, MovesIInv DEF Restore, Points
    <2>3. CASE AddWatch(t) \/ SetCallbacks(t) \/ WaitAsync(t) \/ SetElementPrivate(t)
               \/ Register(t) \/ WrapCollectPads(t) \/ BeginForEach(t) \/ CallInit(t)
      BY <2>3, RegisterIInv
    <2>4. CASE Return(t)
      BY <2>4, ReturnIInv
    <2>5. CASE ReturnReleasing(t) \/ EndForEach(t) \/ Notify(t)
      BY <2>5, ReleasingIInv
    <2>6. CASE ProfileRemove(t)
      BY <2>6, ProfileRemoveIInv
    <2> QED
      BY <1>2, <2>1, <2>2, <2>3, <2>4, <2>5, <2>6 DEF ThreadStep, Ends
  <1>3. ASSUME NEW t \in Threads, NEW c \in Callbacks,
               \/ \E k \in Kinds : Save(t, c, k)
               \/ Call(t, c) \/ Remove(t, c)
               \/ SetCollectFunction(t, c) \/ FreeCollectPads(t, c)
        PROVE  IInv'
    BY <1>3, SaveIInv, CallIInv, RemoveIInv, SetCollectIInv, CollectPadsIInv
  <1>4. ASSUME NEW c \in Callbacks, StopCollecting(c) PROVE IInv'
    BY <1>4, CollectPadsIInv
  <1> QED
    BY <1>1, <1>2, <1>3, <1>4 DEF Next

LEMMA Inductive == ASSUME "early free" \notin Slips PROVE Spec => []IInv
  <1>1. IInv /\ [Next]_vars => IInv'
    BY NextIInv
  <1> QED
    BY <1>1, InitIInv, PTL DEF Spec

LEMMA Callable == IInv => LiveWhileCallable
  <1> SUFFICES ASSUME IInv, NEW c \in Callbacks, state[c] = "set" \/ InCall(c) # {}
               PROVE  ptr[c] # None /\ store[ptr[c]] = c
    BY DEF LiveWhileCallable
  <1>1. state[c] # "free"
    <2>1. CASE InCall(c) # {}
      <3>1. PICK u \in Threads, i \in 1..MaxDepth :
               i <= Len(stack[u]) /\ stack[u][i].cb = c
               /\ stack[u][i].at \in {"called", "running"}
        BY <2>1 DEF InCall
      <3>2. Len(stack[u]) \in Nat /\ MaxDepth \in Nat
        BY CallbacksAssumption DEF IInv, Nested
      <3>3. i \in 1..Len(stack[u])
        BY <3>1, <3>2
      <3>4. FrameOK(stack[u][i])
        BY <3>3, OnStack
      <3> QED
        BY <3>1, <3>4 DEF FrameOK
    <2> QED
      BY <2>1
  <1>2. ptr[c] # None /\ ptr[c] \in Addresses
    BY <1>1 DEF IInv, Entries, Tables
  <1> QED
    BY <1>2 DEF IInv, Entries

\* A callback that C can still call, or is calling, has its own entry, for any
\* number of threads, callbacks and addresses: an application that stops collect
\* pads before it frees them never makes a trampoline miss its function.
THEOREM CallableFound ==
    ASSUME "early free" \notin Slips PROVE Spec => []LiveWhileCallable
  BY Callable, Inductive, PTL

LEMMA Owned == IInv => NothingLost
  <1> SUFFICES ASSUME IInv, NEW a \in Addresses, store[a] # None
               PROVE  /\ ptr[store[a]] = a
                      /\ state[store[a]] = "lost" => kind[store[a]] \in Dropped
    BY DEF NothingLost
  <1>1. PICK c \in Callbacks : c = store[a]
    BY DEF IInv, Tables
  <1> QED
    BY <1>1 DEF IInv, Entries

\* No entry is forgotten, other than what nobody is bound to release (Dropped: the
\* kinds C drops without a word, and wrappers of collect pads C has not got): it
\* is named by the callback it belongs to until somebody releases it.
THEOREM EntriesOwned ==
    ASSUME "early free" \notin Slips PROVE Spec => []NothingLost
  BY Owned, Inductive, PTL

-----------------------------------------------------------------------------
\* What IInv does not say about types.
Rest == profile \subseteq Addresses /\ panicked \in BOOLEAN

LEMMA NextRest ==
    ASSUME IInv, Rest, [Next]_vars
    PROVE  Rest'
  <1>1. ASSUME NEW t \in Threads, ProfileAdd(t) PROVE Rest'
    <2>1. Top(t).addr \in Addresses
      BY <1>1, OnTop DEF ProfileAdd, TopIs, Frames
    <2>2. profile' = profile \cup {Top(t).addr}
          /\ panicked' = (panicked \/ Top(t).addr \in profile)
      BY <1>1 DEF ProfileAdd
    <2> QED
      BY <2>1, <2>2 DEF Rest
  <1>2. ASSUME NEW t \in Threads, ProfileRemove(t) PROVE Rest'
    BY <1>2 DEF ProfileRemove, Rest
  <1>3. ASSUME profile' = profile,
               (panicked' = panicked) \/ \E p \in BOOLEAN : panicked' = (panicked \/ p)
        PROVE  Rest'
    BY <1>3 DEF Rest
  <1>4. ASSUME NEW t \in Threads, NEW c \in Callbacks,
               (\E k \in Kinds : Save(t, c, k)) \/ Call(t, c) \/ Remove(t, c)
               \/ SetCollectFunction(t, c) \/ FreeCollectPads(t, c)
        PROVE  Rest'
    <2>1. CASE FreeCollectPads(t, c)
      <3>1. profile' = profile /\ (panicked' = (panicked \/ store[ptr[c]] = None))
        BY <2>1 DEF FreeCollectPads, Unref
      <3>2. (store[ptr[c]] = None) \in BOOLEAN
        OBVIOUS
      <3> QED
        BY <1>3, <3>1, <3>2
    <2>2. CASE (\E k \in Kinds : Save(t, c, k)) \/ Call(t, c) \/ Remove(t, c)
               \/ SetCollectFunction(t, c)
      <3>1. profile' = profile /\ (panicked' = panicked)
        BY <2>2 DEF Save, Call, Remove, SetCollectFunction
      <3> QED
        BY <1>3, <3>1
    <2> QED
      BY <1>4, <2>1, <2>2
  <1>5. ASSUME NEW t \in Threads, Restore(t) PROVE Rest'
    <2>1. profile' = profile /\ (panicked' = (panicked \/ store[Top(t).addr] # Top(t).cb))
      BY <1>5 DEF Restore
    <2>2. (store[Top(t).addr] # Top(t).cb) \in BOOLEAN
      OBVIOUS
    <2> QED
      BY <1>3, <2>1, <2>2
  <1>6. ASSUME NEW t \in Threads, ReturnReleasing(t) \/ EndForEach(t) \/ Notify(t)
        PROVE  Rest'
    <2>1. profile' = profile /\ (panicked' = (panicked \/ store[Top(t).addr] = None))
      BY <1>6 DEF ReturnReleasing, EndForEach, Notify, Unref
    <2>2. (store[Top(t).addr] = None) \in BOOLEAN
      OBVIOUS
    <2> QED
      BY <1>3, <2>1, <2>2
  <1>7. ASSUME NEW t \in Threads,
               AddWatch(t) \/ SetCallbacks(t) \/ WaitAsync(t) \/ SetElementPrivate(t)
               \/ Register(t) \/ WrapCollectPads(t) \/ BeginForEach(t) \/ CallInit(t)
               \/ Return(t)
        PROVE  Rest'
    <2>1. profile' = profile /\ (panicked' = panicked)
      BY <1>7 DEF AddWatch, SetCallbacks, WaitAsync, SetElementPrivate, Register,
                  WrapCollectPads, BeginForEach, CallInit, Return, Takes, Loses
    <2> QED
      BY <1>3, <2>1
  <1>8. CASE UNCHANGED vars
    BY <1>8 DEF vars, Rest
  <1>9. ASSUME NEW t \in Threads, ThreadStep(t) PROVE Rest'
    BY <1>1, <1>2, <1>5, <1>6, <1>7, <1>9 DEF ThreadStep, Ends
  <1>10. ASSUME NEW c \in Callbacks, StopCollecting(c) PROVE Rest'
    BY <1>10 DEF StopCollecting, Rest
  <1> QED
    BY <1>4, <1>8, <1>9, <1>10 DEF Next

\* The tables name callbacks, kinds and addresses and calls are never nested
\* deeper than the bound: an entry C is given is one gopointer has handed out.
THEOREM CallbacksTyped ==
    ASSUME "early free" \notin Slips PROVE Spec => []TypeOK
  <1>1. IInv /\ Rest => TypeOK
    <2> SUFFICES ASSUME IInv, Rest PROVE TypeOK
      OBVIOUS
    <2>1. \A t \in Threads : /\ Len(stack[t]) <= MaxDepth
                             /\ \A i \in 1..Len(stack[t]) : stack[t][i] \in Frames
      BY OnStack DEF IInv, Nested
    <2> QED
      BY <2>1 DEF IInv, Tables, Rest, TypeOK
  <1>2. Init => Rest
    BY DEF Init, Rest
  <1>3. IInv /\ Rest /\ [Next]_vars => Rest'
    BY NextRest
  <1> QED
    BY <1>1, <1>2, <1>3, Inductive, PTL DEF Spec

-----------------------------------------------------------------------------
\* The top of a stack after a step of its thread.
Settled(t) ==
    /\ \A u \in Threads \ {t} : stack'[u] = stack[u]
    /\ ~TopIs(t, "saved")' /\ ~TopIs(t, "unprofile")'

LEMMA PoppedTop ==
    ASSUME IInv, NEW t \in Threads, stack[t] # <<>>, Become(t, <<>>)
    PROVE  Settled(t)
  <1>1. PICK m \in Nat : m = Len(stack[t]) - 1
    BY OnTop
  <1>2. /\ \A u \in Threads \ {t} : stack'[u] = stack[u]
        /\ Len(stack'[t]) = m /\ stack'[t] \in Seq(Frames)
        /\ \A i \in 1..m : stack'[t][i] = stack[t][i]
    BY <1>1, PopShape DEF Cut
  <1>3. CASE m = 0
    BY <1>2, <1>3 DEF Settled, TopIs
  <1>4. CASE m # 0
    <2>1. stack'[t][m] = stack[t][m] /\ m >= 1
      BY <1>2, <1>4
    <2>2. stack[t][m].at \in {"running", "iterating"}
      BY <1>1, <2>1, OnTop
    <2> QED
      BY <1>2, <2>1, <2>2 DEF Settled, TopIs, Top
  <1> QED
    BY <1>3, <1>4

LEMMA ReplacedTop ==
    ASSUME IInv, NEW t \in Threads, stack[t] # <<>>, NEW f \in Frames,
           Become(t, <<f>>)
    PROVE  /\ \A u \in Threads \ {t} : stack'[u] = stack[u]
           /\ stack'[t] # <<>> /\ Top(t)' = f
  <1>1. PICK m \in Nat : m = Len(stack[t]) - 1
    BY OnTop
  <1>2. Topped(t, m, f)
    BY <1>1, ReplaceShape
  <1> QED
    BY <1>2 DEF Topped, Top

LEMMA EnteredTop ==
    ASSUME IInv, NEW t \in Threads, NEW point \in Points, NEW c \in Callbacks,
           NEW a \in Addresses, Enter(t, point, c, a)
    PROVE  /\ \A u \in Threads \ {t} : stack'[u] = stack[u]
           /\ stack'[t] # <<>>
           /\ Top(t)' = [at |-> point, cb |-> c, addr |-> a]
  <1>1. PICK m \in Nat : m = Len(stack[t])
    BY DEF IInv, Nested
  <1>2. PICK f : f = [at |-> point, cb |-> c, addr |-> a]
    OBVIOUS
  <1>3. Topped(t, m, f)
    BY <1>1, <1>2, EnterShape
  <1> QED
    BY <1>2, <1>3 DEF Topped, Top

LEMMA NotifyTop ==
    ASSUME IInv, NEW t \in Threads, stack[t] # <<>>, NEW cs,
           \A c \in cs : c \in Callbacks /\ ptr[c] \in Addresses,
           Become(t, NotifyFrames(cs))
    PROVE  Settled(t)
  <1>1. CASE cs = {} \/ \E c \in cs : kind[c] = "collect"
    BY <1>1, PoppedTop DEF NotifyFrames
  <1>2. CASE cs # {} /\ ~\E c \in cs : kind[c] = "collect"
    <2>1. PICK c \in cs : c = CHOOSE x \in cs : TRUE
      BY <1>2
    <2>2. PICK f \in Frames : f = [at |-> "notify", cb |-> c, addr |-> ptr[c]]
      BY DEF Frames, Points
    <2>3. Become(t, <<f>>)
      BY <1>2, <2>1, <2>2 DEF NotifyFrames
    <2> QED
      BY <2>2, <2>3, ReplacedTop DEF Settled, TopIs
  <1> QED
    BY <1>1, <1>2

\* A step of thread t that is no part of a notify or of a registration of a
\* probe leaves the profile right.
LEMMA QuietPInv ==
    ASSUME PInv, IInv', NEW t \in Threads, Settled(t),
           ~TopIs(t, "unprofile"), TopIs(t, "saved") => kind[Top(t).cb] # "probe",
           profile' = profile, ~panicked',
           \A c \in Callbacks : /\ kind'[c] = "probe" <=> kind[c] = "probe"
                                /\ kind[c] = "probe" => ptr'[c] = ptr[c],
           \A a \in Addresses : store[a] = None => store'[a] = None
    PROVE  PInv'
  <1>1. \A u \in Threads : TopIs(u, "unprofile")' <=> TopIs(u, "unprofile")
    BY DEF Settled, TopIs, Top
  <1>2. \A u \in Threads : TopIs(u, "unprofile") =>
            Top(u)' = Top(u) /\ Top(u).addr \in Addresses
    <2> SUFFICES ASSUME NEW u \in Threads, TopIs(u, "unprofile")
                 PROVE  Top(u)' = Top(u) /\ Top(u).addr \in Addresses
      OBVIOUS
    <2>1. u # t /\ stack[u] # <<>>
      BY DEF TopIs
    <2>2. Top(u) \in Frames
      BY <2>1, OnTop DEF PInv
    <2> QED
      BY <2>1, <2>2 DEF Settled, Top, Frames
  <1>3. Vacated'
    BY <1>1, <1>2 DEF PInv, Vacated
  <1>4. Leaving' = Leaving
    BY <1>1, <1>2 DEF Leaving
  <1>5. ASSUME NEW c \in Callbacks, kind[c] = "probe"
        PROVE  Saving(c)' <=> Saving(c)
    <2>1. \A u \in Threads :
             TopIs(u, "saved") /\ Top(u).cb = c
             <=> TopIs(u, "saved")' /\ Top(u)'.cb = c
      BY <1>5 DEF Settled, TopIs, Top
    <2> QED
      BY <2>1 DEF Saving
  <1>6. Probes' = Probes /\ \A c \in Probes : ptr'[c] = ptr[c]
    <2>1. \A c \in Callbacks : kind'[c] = "probe" /\ ~Saving(c)'
                              <=> kind[c] = "probe" /\ ~Saving(c)
      <3> SUFFICES ASSUME NEW c \in Callbacks
                   PROVE  kind'[c] = "probe" /\ ~Saving(c)'
                          <=> kind[c] = "probe" /\ ~Saving(c)
        OBVIOUS
      <3>1. CASE kind[c] = "probe"
        BY <1>5, <3>1
      <3>2. CASE kind[c] # "probe"
        BY <3>2
      <3> QED
        BY <3>1, <3>2
    <2>2. Probes' = {c \in Callbacks : kind'[c] = "probe" /\ ~Saving(c)'}
      BY DEF Probes
    <2>3. \A c \in Probes : c \in Callbacks /\ kind[c] = "probe"
      BY DEF Probes
    <2> QED
      BY <2>1, <2>2, <2>3 DEF Probes
  <1>7. profile \subseteq {ptr[c] : c \in Probes} \cup Leaving
        /\ \A c \in Probes : ptr[c] \in profile
    BY DEF PInv, Profiled
  <1>8. Profiled'
    <2>1. profile' \subseteq {ptr'[c] : c \in Probes'} \cup Leaving'
      BY <1>4, <1>6, <1>7
    <2>2. \A c \in Probes' : ptr'[c] \in profile'
      BY <1>6, <1>7
    <2> QED
      BY <2>1, <2>2 DEF Profiled
  <1> QED
    BY <1>3, <1>8 DEF PInv

\* No frame of another thread is registering the callback this one is
\* registering, and callbacks have different addresses.
LEMMA SavedOnce ==
    ASSUME IInv, NEW t \in Threads, stack[t] # <<>>, Top(t).at # "unprofile",
           NEW u \in Threads, u # t, TopIs(u, "saved")
    PROVE  Top(u).cb # Top(t).cb
  <1>1. Len(stack[t]) \in Nat /\ Len(stack[t]) >= 1
    BY OnTop
  <1>2. Top(t) \in Kept(u, Len(stack[u]) - 1, t)
    BY <1>1 DEF Kept, Top
  <1> QED
    BY <1>2, OnTop DEF TopIs, Share

LEMMA SavePInv ==
    ASSUME PInv, ThreadCached, NEW t \in Threads, NEW c \in Callbacks,
           NEW k \in Kinds, Save(t, c, k)
    PROVE  PInv'
  <1>1. PICK a \in Mallocable :
           store' = [store EXCEPT ![a] = c] /\ ptr' = [ptr EXCEPT ![c] = a]
           /\ Enter(t, "saved", c, a)
    BY DEF Save
  <1>2. /\ a \in Addresses /\ store[a] = None
        /\ \A u \in Threads : TopIs(u, "unprofile") => Top(u).addr # a
    BY DEF Mallocable
  <1>3. /\ \A u \in Threads \ {t} : stack'[u] = stack[u]
        /\ stack'[t] # <<>> /\ Top(t)' = [at |-> "saved", cb |-> c, addr |-> a]
    <2>1. IInv /\ "saved" \in Points
      BY DEF PInv, Points
    <2> QED
      BY <1>1, <1>2, <2>1, EnteredTop
  <1>4. ~TopIs(t, "saved") /\ ~TopIs(t, "unprofile")
    BY DEF Save, Free, TopIs
  <1>5. /\ TopIs(t, "saved")' /\ ~TopIs(t, "unprofile")' /\ Top(t)'.cb = c
    BY <1>3 DEF TopIs
  <1>6. \A u \in Threads \ {t} :
          /\ TopIs(u, "saved")' <=> TopIs(u, "saved")
          /\ TopIs(u, "unprofile")' <=> TopIs(u, "unprofile")
          /\ Top(u)' = Top(u)
    BY <1>3 DEF TopIs, Top
  <1>7. /\ Tables /\ kind[c] = None /\ IInv /\ IInv' /\ ptr[c] = None
        /\ kind' = [kind EXCEPT ![c] = k] /\ profile' = profile /\ panicked' = panicked
    BY SaveIInv DEF PInv, IInv, Entries, Save
  <1>8. Vacated'
    <2> SUFFICES ASSUME NEW u \in Threads, TopIs(u, "unprofile")'
                 PROVE  store'[Top(u)'.addr] = None
      BY DEF Vacated
    <2>1. u # t /\ TopIs(u, "unprofile") /\ Top(u)' = Top(u) /\ Top(u).addr # a
      BY <1>2, <1>5, <1>6
    <2>2. Top(u).addr \in Addresses /\ store[Top(u).addr] = None
      BY <1>7, <2>1, OnTop DEF PInv, Vacated, TopIs, Frames
    <2> QED
      BY <1>1, <1>7, <2>1, <2>2 DEF Tables
  <1>9. Leaving' = Leaving
    BY <1>4, <1>5, <1>6 DEF Leaving
  <1>10. \A d \in Callbacks \ {c} : Saving(d)' <=> Saving(d)
    BY <1>4, <1>5, <1>6 DEF Saving
  <1>11. Saving(c)' /\ c \notin Probes /\ \A d \in Callbacks \ {c} : kind'[d] = kind[d]
    <2>1. "probe" \in AllKinds
      BY DEF AllKinds
    <2> QED
      BY <1>5, <1>7, <2>1, CallbacksAssumption DEF Saving, Probes, Tables
  <1>12. Probes' = Probes /\ \A d \in Probes : ptr'[d] = ptr[d]
    <2>1. \A d \in Callbacks \ {c} : ptr'[d] = ptr[d]
      BY <1>1, <1>7 DEF Tables
    <2> QED
      BY <1>10, <1>11, <2>1 DEF Probes
  <1>13. {ptr'[d] : d \in Probes} = {ptr[d] : d \in Probes}
    BY <1>12
  <1>14. Profiled'
    <2>1. profile' \subseteq {ptr'[d] : d \in Probes'} \cup Leaving'
      BY <1>7, <1>9, <1>12, <1>13 DEF PInv, Profiled
    <2>2. \A d \in Probes' : ptr'[d] \in profile'
      BY <1>7, <1>12 DEF PInv, Profiled
    <2> QED
      BY <2>1, <2>2 DEF Profiled
  <1> QED
    BY <1>7, <1>8, <1>14 DEF PInv

\* The other threads stay where they are.
LEMMA OtherTops ==
    ASSUME NEW t \in Threads, \A u \in Threads \ {t} : stack'[u] = stack[u]
    PROVE  \A u \in Threads \ {t} :
             /\ TopIs(u, "saved")' <=> TopIs(u, "saved")
             /\ TopIs(u, "unprofile")' <=> TopIs(u, "unprofile")
             /\ Top(u)' = Top(u)
  BY DEF TopIs, Top

LEMMA ProfileAddPInv ==
    ASSUME PInv, NEW t \in Threads, ProfileAdd(t)
    PROVE  PInv'
  <1>1. /\ TopIs(t, "saved") /\ stack[t] # <<>> /\ Top(t).at = "saved"
        /\ store' = store /\ kind' = kind /\ ptr' = ptr
        /\ kind[Top(t).cb] = "probe" /\ GoTo(t, "profiled")
    BY DEF ProfileAdd, TopIs
  <1>2. IInv /\ IInv'
    BY MovesIInv DEF PInv, ProfileAdd, Points
  <1>3. PICK c \in Callbacks, a \in Addresses : Top(t).cb = c /\ Top(t).addr = a
    BY <1>1, <1>2, OnTop DEF Frames
  <1>4. ptr[c] = a /\ store[a] = c /\ kind[c] = "probe"
    BY <1>1, <1>2, <1>3, OnTop DEF FrameOK, IInv, Entries
  <1>5. PICK f \in Frames : f = [at |-> "profiled", cb |-> c, addr |-> a]
    BY DEF Frames, Points
  <1>6. Become(t, <<f>>)
    <2>1. Top(t) \in Frames
      BY <1>1, <1>2, OnTop
    <2>2. f = [Top(t) EXCEPT !.at = "profiled"]
      BY <1>3, <1>5, <2>1 DEF Frames
    <2> QED
      BY <1>1, <2>2 DEF GoTo
  <1>7. /\ \A u \in Threads \ {t} : stack'[u] = stack[u]
        /\ stack'[t] # <<>> /\ Top(t)' = f
    BY <1>1, <1>2, <1>6, ReplacedTop
  <1>8. ~TopIs(t, "saved")' /\ ~TopIs(t, "unprofile")' /\ ~TopIs(t, "unprofile")
    BY <1>1, <1>5, <1>7 DEF TopIs
  <1>9. \A u \in Threads \ {t} :
          /\ TopIs(u, "saved")' <=> TopIs(u, "saved")
          /\ TopIs(u, "unprofile")' <=> TopIs(u, "unprofile")
          /\ Top(u)' = Top(u)
    BY <1>7, OtherTops
  <1>10. Leaving' = Leaving /\ Vacated'
    BY <1>1, <1>8, <1>9 DEF Leaving, Vacated, PInv
  <1>11. Saving(c) /\ ~Saving(c)'
    <2>1. \A u \in Threads \ {t} : TopIs(u, "saved") => Top(u).cb # c
      BY <1>1, <1>2, <1>3, SavedOnce
    <2> QED
      BY <1>1, <1>3, <1>8, <1>9, <2>1 DEF Saving
  <1>12. \A d \in Callbacks \ {c} : Saving(d)' <=> Saving(d)
    BY <1>1, <1>3, <1>8, <1>9 DEF Saving
  <1>13. Probes' = Probes \cup {c} /\ c \notin Probes
    BY <1>1, <1>4, <1>11, <1>12 DEF Probes
  <1>14. profile' = profile \cup {a}
    BY <1>3 DEF ProfileAdd
  <1>15. Profiled'
    <2>1. profile \subseteq {ptr[d] : d \in Probes} \cup Leaving
          /\ \A d \in Probes : ptr[d] \in profile
      BY DEF PInv, Profiled
    <2>2. profile' \subseteq {ptr'[d] : d \in Probes'} \cup Leaving'
      BY <1>1, <1>4, <1>10, <1>13, <1>14, <2>1
    <2>3. \A d \in Probes' : ptr'[d] \in profile'
      BY <1>1, <1>4, <1>13, <1>14, <2>1
    <2> QED
      BY <2>2, <2>3 DEF Profiled
  <1>16. a \notin profile
    <2>1. a \notin Leaving
      BY <1>4, CallbacksAssumption DEF PInv, Leaving, Vacated
    <2>2. \A d \in Probes : ptr[d] # a
      BY <1>2, <1>4, <1>13 DEF IInv, Entries, Probes
    <2> QED
      BY <2>1, <2>2 DEF PInv, Profiled
  <1>17. ~panicked'
    BY <1>3, <1>16 DEF PInv, ProfileAdd
  <1> QED
    BY <1>2, <1>10, <1>15, <1>17 DEF PInv

LEMMA ProfileRemovePInv ==
    ASSUME PInv, NEW t \in Threads, ProfileRemove(t)
    PROVE  PInv'
  <1>1. /\ TopIs(t, "unprofile") /\ stack[t] # <<>> /\ Become(t, <<>>)
        /\ store' = store /\ kind' = kind /\ ptr' = ptr /\ panicked' = panicked
        /\ ~TopIs(t, "saved")
    BY DEF ProfileRemove, TopIs
  <1>2. IInv /\ IInv'
    BY ProfileRemoveIInv DEF PInv
  <1>3. PICK a \in Addresses : Top(t).addr = a
    BY <1>1, <1>2, OnTop DEF Frames
  <1>4. store[a] = None /\ profile' = profile \ {a}
    BY <1>1, <1>3 DEF PInv, Vacated, ProfileRemove
  <1>5. Settled(t)
    BY <1>1, <1>2, PoppedTop
  <1>6. \A u \in Threads \ {t} :
          /\ TopIs(u, "saved")' <=> TopIs(u, "saved")
          /\ TopIs(u, "unprofile")' <=> TopIs(u, "unprofile")
          /\ Top(u)' = Top(u)
    BY <1>5, OtherTops DEF Settled
  <1>7. Vacated'
    BY <1>1, <1>5, <1>6 DEF PInv, Vacated, Settled
  <1>8. Leaving \subseteq Leaving' \cup {a}
    BY <1>3, <1>6 DEF Leaving
  <1>9. \A d \in Callbacks : Saving(d)' <=> Saving(d)
    BY <1>1, <1>5, <1>6 DEF Saving, Settled
  <1>10. Probes' = Probes
    BY <1>1, <1>9 DEF Probes
  <1>11. \A d \in Probes : ptr[d] # a
    BY <1>2, <1>4, CallbacksAssumption DEF IInv, Entries, Probes
  <1>12. Profiled'
    <2>1. profile \subseteq {ptr[d] : d \in Probes} \cup Leaving
          /\ \A d \in Probes : ptr[d] \in profile
      BY DEF PInv, Profiled
    <2>2. profile' \subseteq {ptr'[d] : d \in Probes'} \cup Leaving'
      BY <1>1, <1>4, <1>8, <1>10, <2>1
    <2>3. \A d \in Probes' : ptr'[d] \in profile'
      BY <1>1, <1>4, <1>10, <1>11, <2>1
    <2> QED
      BY <2>2, <2>3 DEF Profiled
  <1> QED
    BY <1>1, <1>2, <1>7, <1>12 DEF PInv

\* The three steps that release the entry of the frame they end.
LEMMA ReleasingFacts ==
    ASSUME PInv, NEW t \in Threads,
           ReturnReleasing(t) \/ EndForEach(t) \/ Notify(t)
    PROVE  /\ IInv' /\ ~panicked' /\ profile' = profile
           /\ stack[t] # <<>> /\ ~TopIs(t, "unprofile") /\ ~TopIs(t, "saved")
           /\ Top(t).cb \in Callbacks /\ Top(t).addr \in Addresses
           /\ ptr[Top(t).cb] = Top(t).addr
           /\ store' = [store EXCEPT ![Top(t).addr] = None]
           /\ \A d \in Callbacks : d # Top(t).cb =>
                 kind'[d] = kind[d] /\ ptr'[d] = ptr[d]
           /\ kind'[Top(t).cb] = None /\ None # "probe"
  <1>1. /\ stack[t] # <<>> /\ ~TopIs(t, "unprofile") /\ ~TopIs(t, "saved")
        /\ profile' = profile /\ Unref(Top(t).cb, Top(t).addr)
    BY DEF ReturnReleasing, EndForEach, Notify, TopIs
  <1>2. IInv /\ IInv' /\ store[Top(t).addr] = Top(t).cb
    BY ReleasingIInv DEF PInv
  <1>3. /\ Top(t).cb \in Callbacks /\ Top(t).addr \in Addresses
        /\ ptr[Top(t).cb] = Top(t).addr
    BY <1>1, <1>2, OnTop DEF Frames, FrameOK, TopIs
  <1>4. ~panicked'
    BY <1>1, <1>2, <1>3, CallbacksAssumption DEF Unref, PInv
  <1>5. None # "probe"
    BY CallbacksAssumption DEF AllKinds
  <1> QED
    BY <1>1, <1>2, <1>3, <1>4, <1>5 DEF Unref, IInv, Tables

LEMMA NotifyPInv ==
    ASSUME PInv, NEW t \in Threads, Notify(t), kind[Top(t).cb] \in NoRun
    PROVE  PInv'
  <1>1. PICK c \in Callbacks, a \in Addresses :
           /\ c = Top(t).cb /\ a = Top(t).addr /\ ptr[c] = a
           /\ store' = [store EXCEPT ![a] = None]
           /\ \A d \in Callbacks : d # c => kind'[d] = kind[d] /\ ptr'[d] = ptr[d]
           /\ kind'[c] # "probe"
    BY ReleasingFacts
  <1>2. /\ IInv /\ IInv' /\ ~panicked' /\ profile' = profile
        /\ stack[t] # <<>> /\ ~TopIs(t, "unprofile") /\ ~TopIs(t, "saved")
        /\ GoTo(t, "unprofile")
    BY ReleasingFacts DEF PInv, Notify
  <1>3. PICK f \in Frames : f = [at |-> "unprofile", cb |-> c, addr |-> a]
    BY DEF Frames, Points
  <1>4. Become(t, <<f>>)
    <2>1. Top(t) \in Frames
      BY <1>2, OnTop
    <2>2. f = [Top(t) EXCEPT !.at = "unprofile"]
      BY <1>1, <1>3, <2>1 DEF Frames
    <2> QED
      BY <1>2, <2>2 DEF GoTo
  <1>5. /\ \A u \in Threads \ {t} : stack'[u] = stack[u]
        /\ stack'[t] # <<>> /\ Top(t)' = f
    BY <1>2, <1>4, ReplacedTop
  <1>6. ~TopIs(t, "saved")' /\ TopIs(t, "unprofile")' /\ Top(t)'.addr = a
    BY <1>3, <1>5 DEF TopIs
  <1>7. \A u \in Threads \ {t} :
          /\ TopIs(u, "saved")' <=> TopIs(u, "saved")
          /\ TopIs(u, "unprofile")' <=> TopIs(u, "unprofile")
          /\ Top(u)' = Top(u)
    BY <1>5, OtherTops
  <1>8. store \in [Addresses -> Callbacks \cup {None}]
    BY <1>2 DEF IInv, Tables
  <1>9. Vacated'
    <2> SUFFICES ASSUME NEW u \in Threads, TopIs(u, "unprofile")'
                 PROVE  store'[Top(u)'.addr] = None
      BY DEF Vacated
    <2>1. CASE u = t
      BY <1>1, <1>6, <1>8, <2>1
    <2>2. CASE u # t
      <3>1. /\ TopIs(u, "unprofile") /\ Top(u)' = Top(u)
            /\ store[Top(u).addr] = None /\ Top(u).addr \in Addresses
        BY <1>2, <1>7, <2>2, OnTop DEF PInv, Vacated, TopIs, Frames
      <3> QED
        BY <1>1, <1>8, <3>1
    <2> QED
      BY <2>1, <2>2
  <1>10. Leaving \cup {a} \subseteq Leaving'
    BY <1>2, <1>6, <1>7 DEF Leaving
  <1>11. \A d \in Callbacks : Saving(d)' <=> Saving(d)
    BY <1>2, <1>6, <1>7 DEF Saving
  <1>12. Probes' = Probes \ {c}
    BY <1>1, <1>11 DEF Probes
  <1>13. \A d \in Probes : d \in Callbacks
    BY DEF Probes
  <1>14. Profiled'
    <2>1. profile \subseteq {ptr[d] : d \in Probes} \cup Leaving
          /\ \A d \in Probes : ptr[d] \in profile
      BY DEF PInv, Profiled
    <2>2. profile' \subseteq {ptr'[d] : d \in Probes'} \cup Leaving'
      BY <1>1, <1>2, <1>10, <1>12, <1>13, <2>1
    <2>3. \A d \in Probes' : ptr'[d] \in profile'
      BY <1>1, <1>2, <1>12, <1>13, <2>1
    <2> QED
      BY <2>2, <2>3 DEF Profiled
  <1> QED
    BY <1>2, <1>9, <1>14 DEF PInv

LEMMA GoToTop ==
    ASSUME IInv, NEW t \in Threads, stack[t] # <<>>,
           NEW point \in Points \ {"saved", "unprofile"}, GoTo(t, point)
    PROVE  Settled(t)
  <1>1. Top(t) \in Frames
    BY OnTop
  <1>2. PICK f \in Frames : f = [Top(t) EXCEPT !.at = point]
    BY <1>1 DEF Frames
  <1>3. f.at = point
    BY <1>1, <1>2 DEF Frames
  <1>4. /\ \A u \in Threads \ {t} : stack'[u] = stack[u]
        /\ stack'[t] # <<>> /\ Top(t)' = f
    BY <1>2, ReplacedTop DEF GoTo
  <1> QED
    BY <1>3, <1>4 DEF Settled, TopIs

LEMMA EnterSettled ==
    ASSUME IInv, NEW t \in Threads, NEW point \in Points \ {"saved", "unprofile"},
           NEW c \in Callbacks, NEW a \in Addresses, Enter(t, point, c, a)
    PROVE  Settled(t)
  BY EnteredTop DEF Settled, TopIs

\* Registering, other than the first half of a probe.
LEMMA RegisterPInv ==
    ASSUME PInv, NEW t \in Threads,
           \/ AddWatch(t) \/ SetCallbacks(t) \/ WaitAsync(t) \/ SetElementPrivate(t)
           \/ Register(t) \/ WrapCollectPads(t) \/ BeginForEach(t) \/ CallInit(t)
    PROVE  PInv'
  <1>1. IInv /\ IInv'
    BY RegisterIInv DEF PInv
  <1>2. /\ kind' = kind /\ ptr' = ptr /\ store' = store
        /\ profile' = profile /\ panicked' = panicked
    BY DEF AddWatch, SetCallbacks, WaitAsync, SetElementPrivate, Register,
           WrapCollectPads, BeginForEach, CallInit, Takes, Loses
  <1>3. /\ stack[t] # <<>> /\ ~TopIs(t, "unprofile")
        /\ TopIs(t, "saved") => kind[Top(t).cb] # "probe"
    BY DEF AddWatch, SetCallbacks, WaitAsync, SetElementPrivate, Register,
           WrapCollectPads, BeginForEach, CallInit, TopIs
  <1>4. Settled(t)
    <2>1. CASE AddWatch(t) \/ WaitAsync(t) \/ SetElementPrivate(t) \/ Register(t)
               \/ WrapCollectPads(t)
      <3>1. Become(t, <<>>)
        BY <2>1 DEF AddWatch, WaitAsync, SetElementPrivate, Register, WrapCollectPads, Loses
      <3> QED
        BY <1>1, <1>3, <3>1, PoppedTop
    <2>2. CASE SetCallbacks(t)
      <3>1. PICK cs : /\ cs = {c \in Current(kind[Top(t).cb]) : InCall(c) = {}}
                      /\ Become(t, NotifyFrames(cs))
        BY <2>2 DEF SetCallbacks
      <3>2. \A c \in cs : c \in Callbacks /\ state[c] = "set"
        BY <3>1 DEF Current
      <3>3. \A c \in cs : c \in Callbacks /\ ptr[c] \in Addresses
        BY <1>1, <3>2 DEF IInv, Tables, Entries
      <3> QED
        BY <1>1, <1>3, <3>1, <3>3, NotifyTop
    <2>3. CASE BeginForEach(t)
      BY <1>1, <1>3, <2>3, GoToTop DEF BeginForEach, Points
    <2>4. CASE CallInit(t)
      <3>1. GoTo(t, "called") \/ Become(t, <<>>)
        BY <2>4 DEF CallInit, Loses
      <3> QED
        BY <1>1, <1>3, <3>1, GoToTop, PoppedTop DEF Points
    <2> QED
      BY <2>1, <2>2, <2>3, <2>4
  <1> QED
    BY <1>1, <1>2, <1>3, <1>4, QuietPInv DEF PInv

LEMMA RestorePInv ==
    ASSUME PInv, NEW t \in Threads, Restore(t)
    PROVE  PInv'
  <1>1. /\ stack[t] # <<>> /\ ~TopIs(t, "unprofile") /\ ~TopIs(t, "saved")
        /\ Top(t).at = "called" /\ GoTo(t, "running")
        /\ kind' = kind /\ ptr' = ptr /\ store' = store /\ profile' = profile
    BY DEF Restore, TopIs
  <1>2. IInv /\ IInv'
    BY MovesIInv DEF PInv, Restore, Points
  <1>3. Settled(t)
    BY <1>1, <1>2, GoToTop DEF Points
  <1>4. store[Top(t).addr] = Top(t).cb
    BY <1>1, <1>2, OnTop DEF FrameOK, Frames, IInv, Entries
  <1>5. ~panicked'
    BY <1>4 DEF Restore, PInv
  <1> QED
    BY <1>1, <1>2, <1>3, <1>5, QuietPInv

LEMMA ReturnPInv ==
    ASSUME PInv, NEW t \in Threads, Return(t)
    PROVE  PInv'
  <1>1. /\ stack[t] # <<>> /\ ~TopIs(t, "unprofile") /\ ~TopIs(t, "saved")
        /\ Top(t).at = "running" /\ panicked' = panicked
        /\ kind' = kind /\ ptr' = ptr /\ store' = store /\ profile' = profile
    BY DEF Return, TopIs
  <1>2. IInv /\ IInv'
    BY ReturnIInv DEF PInv
  <1>3. PICK c \in Callbacks : c = Top(t).cb /\ ptr[c] \in Addresses
    BY <1>1, <1>2, OnTop DEF Frames, FrameOK
  <1>4. Become(t, <<>>) \/ Become(t, NotifyFrames({c}))
    BY <1>3 DEF Return
  <1>5. Settled(t)
    BY <1>1, <1>2, <1>3, <1>4, PoppedTop, NotifyTop
  <1> QED
    BY <1>1, <1>2, <1>5, QuietPInv DEF PInv

\* Entries released that are not those of a probe.
LEMMA ReleasingPInv ==
    ASSUME PInv, NEW t \in Threads,
           ReturnReleasing(t) \/ EndForEach(t) \/ Notify(t)
    PROVE  PInv'
  <1>1. CASE Notify(t) /\ kind[Top(t).cb] \in NoRun
    BY <1>1, NotifyPInv
  <1>2. CASE ~(Notify(t) /\ kind[Top(t).cb] \in NoRun)
    <2>1. IInv
      BY DEF PInv
    <2>2. PICK c \in Callbacks, a \in Addresses :
             /\ c = Top(t).cb /\ a = Top(t).addr /\ ptr[c] = a
             /\ store' = [store EXCEPT ![a] = None]
             /\ \A d \in Callbacks : d # c => kind'[d] = kind[d] /\ ptr'[d] = ptr[d]
             /\ kind'[c] # "probe"
      BY ReleasingFacts
    <2>3. /\ IInv' /\ ~panicked' /\ profile' = profile
          /\ stack[t] # <<>> /\ ~TopIs(t, "unprofile") /\ ~TopIs(t, "saved")
      BY ReleasingFacts
    <2>4. Become(t, <<>>)
      BY <1>2 DEF ReturnReleasing, EndForEach, Notify
    <2>5. kind[c] # "probe"
      <3>1. CASE ReturnReleasing(t)
        BY <2>2, <3>1 DEF ReturnReleasing, SelfReleased
      <3>2. CASE EndForEach(t)
        BY <2>1, <2>2, <2>3, <3>2, OnTop DEF EndForEach, TopIs, FrameOK
      <3>3. CASE Notify(t)
        BY <1>2, <2>2, <3>3 DEF NoRun
      <3> QED
        BY <3>1, <3>2, <3>3
    <2>6. \A b \in Addresses : store[b] = None => store'[b] = None
      BY <2>1, <2>2 DEF IInv, Tables
    <2>7. Settled(t)
      BY <2>1, <2>3, <2>4, PoppedTop
    <2> QED
      BY <2>2, <2>3, <2>5, <2>6, <2>7, QuietPInv
  <1> QED
    BY <1>1, <1>2

LEMMA CallPInv ==
    ASSUME PInv, NEW t \in Threads, NEW c \in Callbacks, Call(t, c) \/ Remove(t, c)
    PROVE  PInv'
  <1>1. IInv /\ IInv' /\ state[c] = "set"
    BY CallIInv, RemoveIInv DEF PInv, Call, Remove
  <1>2. ptr[c] \in Addresses
    BY <1>1 DEF IInv, Tables, Entries
  <1>3. ~TopIs(t, "unprofile") /\ ~TopIs(t, "saved")
    BY DEF Call, Remove, Free, TopIs
  <1>4. Settled(t)
    <2>1. \/ Enter(t, "called", c, ptr[c]) \/ Enter(t, "notify", c, ptr[c])
          \/ UNCHANGED stack
      BY DEF Call, Remove
    <2>2. CASE UNCHANGED stack
      BY <1>3, <2>2 DEF Settled, TopIs, Top
    <2>3. CASE Enter(t, "called", c, ptr[c])
      BY <1>1, <1>2, <2>3, EnterSettled DEF Points
    <2>4. CASE Enter(t, "notify", c, ptr[c])
      BY <1>1, <1>2, <2>4, EnterSettled DEF Points
    <2> QED
      BY <2>1, <2>2, <2>3, <2>4
  <1>5. /\ kind' = kind /\ ptr' = ptr /\ store' = store
        /\ profile' = profile /\ panicked' = panicked
    BY DEF Call, Remove
  <1> QED
    BY <1>1, <1>3, <1>4, <1>5, QuietPInv DEF PInv

\* Nothing the profile is about changes.
LEMMA SamePInv ==
    ASSUME PInv, IInv', stack' = stack, store' = store, kind' = kind, ptr' = ptr,
           profile' = profile, ~panicked'
    PROVE  PInv'
  <1>1. \A u \in Threads : /\ TopIs(u, "saved")' <=> TopIs(u, "saved")
                           /\ TopIs(u, "unprofile")' <=> TopIs(u, "unprofile")
                           /\ Top(u)' = Top(u)
    BY DEF TopIs, Top
  <1>2. Vacated' /\ Leaving' = Leaving
    BY <1>1 DEF PInv, Vacated, Leaving
  <1>3. \A c \in Callbacks : Saving(c)' <=> Saving(c)
    BY <1>1 DEF Saving
  <1>4. Probes' = Probes
    BY <1>3 DEF Probes
  <1>5. Profiled'
    BY <1>2, <1>4 DEF PInv, Profiled
  <1> QED
    BY <1>2, <1>5 DEF PInv

LEMMA FreeCollectPadsPInv ==
    ASSUME "early free" \notin Slips, PInv, NEW t \in Threads, NEW c \in Callbacks,
           FreeCollectPads(t, c)
    PROVE  PInv'
  <1>1. IInv /\ IInv' /\ ~panicked'
    BY CollectPadsIInv DEF PInv
  <1>2. /\ ~TopIs(t, "unprofile") /\ ~TopIs(t, "saved") /\ kind[c] = "collect"
        /\ Unref(c, ptr[c]) /\ profile' = profile /\ stack' = stack
    BY DEF FreeCollectPads, Free, TopIs
  <1>3. Settled(t)
    BY <1>2 DEF Settled, TopIs, Top
  <1>4. \A d \in Callbacks : d # c => kind'[d] = kind[d] /\ ptr'[d] = ptr[d]
    BY <1>1, <1>2 DEF Unref, IInv, Tables
  <1>5. kind'[c] # "probe"
    BY <1>1, <1>2, CallbacksAssumption DEF Unref, IInv, Tables, AllKinds
  <1>6. \A a \in Addresses : store[a] = None => store'[a] = None
    BY <1>1, <1>2 DEF Unref, IInv, Tables
  <1> QED
    BY <1>1, <1>2, <1>3, <1>4, <1>5, <1>6, QuietPInv

LEMMA InitPInv == Init => PInv
  <1> SUFFICES ASSUME Init PROVE PInv
    OBVIOUS
  <1>1. IInv /\ ~panicked /\ profile = {}
    BY InitIInv DEF Init
  <1>2. Vacated
    BY DEF Init, Vacated, TopIs
  <1>3. Probes = {}
    BY CallbacksAssumption DEF Init, Probes, AllKinds
  <1> QED
    BY <1>1, <1>2, <1>3 DEF PInv, Profiled

LEMMA NextPInv ==
    ASSUME "early free" \notin Slips, ThreadCached, PInv, [Next]_vars
    PROVE  PInv'
  <1>1. CASE UNCHANGED vars
    <2>1. IInv'
      BY <1>1, NextIInv DEF PInv
    <2> QED
      BY <1>1, <2>1, SamePInv DEF PInv, vars
  <1>2. ASSUME NEW t \in Threads, ThreadStep(t) PROVE PInv'
    <2>1. CASE ProfileAdd(t)
      BY <2>1, ProfileAddPInv
    <2>2. CASE Restore(t)
      BY <2>2, RestorePInv
    <2>3. CASE AddWatch(t) \/ SetCallbacks(t) \/ WaitAsync(t) \/ SetElementPrivate(t)
               \/ Register(t) \/ WrapCollectPads(t) \/ BeginForEach(t) \/ CallInit(t)
      BY <2>3, RegisterPInv
    <2>4. CASE Return(t)
      BY <2>4, ReturnPInv
    <2>5. CASE ReturnReleasing(t) \/ EndForEach(t) \/ Notify(t)
      BY <2>5, ReleasingPInv
    <2>6. CASE ProfileRemove(t)
      BY <2>6, ProfileRemovePInv
    <2> QED
      BY <1>2, <2>1, <2>2, <2>3, <2>4, <2>5, <2>6 DEF ThreadStep, Ends
  <1>3. ASSUME NEW t \in Threads, NEW c \in Callbacks,
               \/ \E k \in Kinds : Save(t, c, k)
               \/ Call(t, c) \/ Remove(t, c)
               \/ SetCollectFunction(t, c) \/ FreeCollectPads(t, c)
        PROVE  PInv'
    <2>1. CASE SetCollectFunction(t, c)
      <3>1. IInv'
        BY <2>1, SetCollectIInv DEF PInv
      <3> QED
        BY <2>1, <3>1, SamePInv DEF SetCollectFunction, PInv
    <2> QED
      BY <1>3, <2>1, SavePInv, CallPInv, FreeCollectPadsPInv
  <1>4. ASSUME NEW c \in Callbacks, StopCollecting(c) PROVE PInv'
    <2>1. IInv' /\ ~panicked'
      BY <1>4, CollectPadsIInv DEF PInv
    <2> QED
      BY <1>4, <2>1, SamePInv DEF StopCollecting
  <1> QED
    BY <1>1, <1>2, <1>3, <1>4 DEF Next

LEMMA ProfileInductive ==
    ASSUME "early free" \notin Slips, ThreadCached PROVE Spec => []PInv
  <1>1. PInv /\ [Next]_vars => PInv'
    BY NextPInv
  <1> QED
    BY <1>1, InitPInv, PTL DEF Spec

\* No trampoline panics on a missing entry, no entry is released twice, and the
\* profile is never given an address it has, when collect pads are stopped before
\* they are freed and an address a notify frees is not given to another thread
\* before the notify has taken it out of the profile.
THEOREM NoPanic ==
    ASSUME "early free" \notin Slips, ThreadCached PROVE Spec => []NeverPanics
  <1>1. PInv => NeverPanics
    BY DEF PInv, NeverPanics
  <1> QED
    BY <1>1, ProfileInductive, PTL

LEMMA ProfileRight == PInv => ProfileNamesProbes
  <1> SUFFICES ASSUME PInv, \A t \in Threads : \A i \in 1..Len(stack[t]) :
                                stack[t][i].at \notin {"saved", "unprofile"}
               PROVE  profile = {ptr[c] : c \in {x \in Callbacks : kind[x] = "probe"}}
    BY DEF ProfileNamesProbes
  <1>1. \A t \in Threads : ~TopIs(t, "saved") /\ ~TopIs(t, "unprofile")
    <2> SUFFICES ASSUME NEW t \in Threads, stack[t] # <<>>
                 PROVE  Top(t).at \notin {"saved", "unprofile"}
      BY DEF TopIs
    <2>1. Len(stack[t]) \in Nat /\ Len(stack[t]) >= 1
      BY OnTop DEF PInv
    <2> QED
      BY <2>1 DEF Top
  <1>2. Leaving = {} /\ Probes = {x \in Callbacks : kind[x] = "probe"}
    BY <1>1 DEF Leaving, Probes, Saving
  <1> QED
    BY <1>2 DEF PInv, Profiled

\* While nobody is between the two halves of a registration or a notify, the
\* profile of pad probes names the probes there are, on the same two conditions.
THEOREM ProfileIsProbes ==
    ASSUME "early free" \notin Slips, ThreadCached PROVE Spec => []ProfileNamesProbes
  BY ProfileRight, ProfileInductive, PTL

=============================================================================
