------------------------------ MODULE SessionStore ------------------------------
(***************************************************************************)
(* What the auth-service promises about sessions and characters, whatever  *)
(* requests run at the same time, fail half way or are answered late: the  *)
(* operations below are atomic, and they are all that ever happens.        *)
(*                                                                         *)
(* AuthStore implements this specification.                                *)
(***************************************************************************)
CONSTANTS
  Sessions, Accounts, Characters,
  Slots,         \* places for characters an account has
  NoAccount,     \* the holder of a session that is not open
  NoCharacter    \* what a session plays before it selects a character

VARIABLES
  holder,   \* the account each open session belongs to
  playing,  \* the character each session has selected
  roster,   \* the living characters, each in a slot of its account
  made      \* every character ever made

vars == <<holder, playing, roster, made>>

Entry == Accounts \X Slots \X Characters

Init ==
  /\ holder = [s \in Sessions |-> NoAccount]
  /\ playing = [s \in Sessions |-> NoCharacter]
  /\ roster = {}
  /\ made = {}

\* A session belongs to one account at a time, and starts without a character.
Open(s, a) ==
  /\ holder' = [holder EXCEPT ![s] = a]
  /\ playing' = [playing EXCEPT ![s] = NoCharacter]
  /\ UNCHANGED <<roster, made>>

\* Sessions end, and with them what they play.
Close(S) ==
  /\ holder' = [s \in Sessions |-> IF s \in S THEN NoAccount ELSE holder[s]]
  /\ playing' = [s \in Sessions |-> IF s \in S THEN NoCharacter ELSE playing[s]]
  /\ UNCHANGED <<roster, made>>

\* A new character takes a free slot.
Create(a, k, c) ==
  /\ \A e \in roster : ~(e[1] = a /\ e[2] = k)
  /\ c \notin made
  /\ roster' = roster \cup {<<a, k, c>>}
  /\ made' = made \cup {c}
  /\ UNCHANGED <<holder, playing>>

\* A character dies once, at the hands of its account, and nobody plays it any
\* more.
Delete(a, c) ==
  /\ \E k \in Slots : <<a, k, c>> \in roster
  /\ roster' = {e \in roster : e[3] # c}
  /\ playing' = [s \in Sessions |-> IF playing[s] = c THEN NoCharacter ELSE playing[s]]
  /\ UNCHANGED <<holder, made>>

\* An open session selects a living character of its own account.
Select(s, c) ==
  /\ \E k \in Slots : <<holder[s], k, c>> \in roster
  /\ playing' = [playing EXCEPT ![s] = c]
  /\ UNCHANGED <<holder, roster, made>>

\* A selection that finds its character gone costs the session the one it had.
Deselect(s) ==
  /\ playing' = [playing EXCEPT ![s] = NoCharacter]
  /\ UNCHANGED <<holder, roster, made>>

Next ==
  \/ \E s \in Sessions, a \in Accounts : Open(s, a)
  \/ \E S \in SUBSET Sessions : Close(S)
  \/ \E a \in Accounts, k \in Slots, c \in Characters : Create(a, k, c)
  \/ \E a \in Accounts, c \in Characters : Delete(a, c)
  \/ \E s \in Sessions, c \in Characters : Select(s, c)
  \/ \E s \in Sessions : Deselect(s)

Spec == Init /\ [][Next]_vars

=============================================================================
