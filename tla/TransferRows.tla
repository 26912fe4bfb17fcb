----------------------------- MODULE TransferRows -----------------------------
(***************************************************************************)
(* The vocabulary of the tables of transfers.  A row says how one function *)
(* of the bindings hands one pointer to C, or takes one from C, and what   *)
(* the C function does with it.                                            *)
(*                                                                         *)
(* what   object      counted: mini objects and GObjects                   *)
(*        structure   one owner; C marks it when it has a parent           *)
(*        memory      one owner: strings, lists, errors, boxed values      *)
(*                                                                         *)
(* An argument:                                                            *)
(*   go   plain    the pointer of the wrapper                              *)
(*        ref      the pointer, after taking a reference                   *)
(*        copy     a copy nobody else has                                  *)
(*        temp     memory allocated for the call and freed after it        *)
(*        made     memory or a copy allocated for the call, not freed      *)
(*        yielded  the pointer of a wrapper that has no finalizer; the     *)
(*                 documentation tells the caller not to free it           *)
(*   c    none     C borrows it for the call                               *)
(*        keeps    C takes a reference, or a copy, of its own              *)
(*        consumes the reference or the memory is C's from now on          *)
(*                                                                         *)
(* A result:                                                               *)
(*   c    full     the caller owns a reference or the memory               *)
(*        none     C still owns it                                         *)
(*        floating a new object whose reference nobody has claimed         *)
(*   go   full     a wrapper, with unref or free as its finalizer          *)
(*        none     a reference is taken (or sunk), then as full            *)
(*        handed   a wrapper only; the documentation tells the caller to   *)
(*                 unref or free                                           *)
(*        bare     a wrapper only                                          *)
(*        kept     a wrapper that keeps the one of its holder reachable    *)
(*        freed    the content is copied and the memory freed              *)
(*        copied   the content is copied                                   *)
(*                                                                         *)
(* Receivers are passed plainly and borrowed, numbers and enumerations     *)
(* carry nothing; neither has a row.  What C does with a pointer is taken  *)
(* from the comments of the bindings and the interface of GStreamer.       *)
(***************************************************************************)
Arg(what, go, c, fns) ==
    {[way |-> "arg", what |-> what, go |-> go, c |-> c, fn |-> f] : f \in fns}

Result(what, c, go, fns) ==
    {[way |-> "result", what |-> what, go |-> go, c |-> c, fn |-> f] : f \in fns}

\* Strings in and out, the most frequent rows.
TempStrings(fns)    == Arg("memory", "temp", "none", fns)
BorrowedStrings(fns) == Result("memory", "none", "copied", fns)

\* What Go does fits what C does: every reference and all memory has one owner.
Agrees(r) ==
    IF r.way = "arg"
      THEN \/ r.go = "plain" /\ r.c = "none"
           \/ r.go = "plain" /\ r.c = "keeps"
           \/ r.go = "ref" /\ r.c = "consumes" /\ r.what = "object"
           \/ r.go = "copy" /\ r.c = "consumes" /\ r.what # "object"
           \/ r.go = "temp" /\ r.c \in {"none", "keeps"} /\ r.what # "object"
           \/ r.go \in {"made", "yielded"} /\ r.c = "consumes" /\ r.what # "object"
      ELSE \/ r.c = "full" /\ r.go \in {"full", "handed", "freed"}
           \/ r.c = "none" /\ r.go \in {"bare", "kept", "copied"}
           \/ r.c \in {"none", "floating"} /\ r.go = "none" /\ r.what = "object"
=============================================================================
