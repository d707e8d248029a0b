--------------------------- MODULE ExclusiveWindow ---------------------------
(***************************************************************************)
(* What the maintenance write gate promises to backup and restore, without *)
(* saying how: a window that one operation holds alone, and that no gated  *)
(* request overlaps.  WriteGate implements it.                             *)
(***************************************************************************)
CONSTANTS Gated,      \* the mutating requests the gate counts
          Operation,  \* backup and restore
          NoOp        \* the window is free

VARIABLES active,     \* the gated requests in progress
          window      \* the operation that holds the window, or NoOp

windowVars == <<active, window>>

WInit == active = {} /\ window = NoOp

\* A gated request begins only outside a window.
Begin(r) ==
  /\ window = NoOp
  /\ r \notin active
  /\ active' = active \cup {r}
  /\ UNCHANGED window

End(r) ==
  /\ r \in active
  /\ active' = active \ {r}
  /\ UNCHANGED window

\* An operation opens a window only when every gated request is over.
Open(o) ==
  /\ window = NoOp
  /\ active = {}
  /\ window' = o
  /\ UNCHANGED active

Close ==
  /\ window # NoOp
  /\ window' = NoOp
  /\ UNCHANGED active

\* The process stops, and with it whatever ran in it.
Stops ==
  /\ active' = {}
  /\ window' = NoOp

WNext ==
  \/ \E r \in Gated : Begin(r) \/ End(r)
  \/ \E o \in Operation : Open(o)
  \/ Close \/ Stops

WSpec == WInit /\ [][WNext]_windowVars
=============================================================================
