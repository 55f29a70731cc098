----------------------------- MODULE AuthStoreProofs -----------------------------
(***************************************************************************)
(* The sessions and characters of the auth-service stay consistent for any *)
(* number of sessions, accounts, characters, slots and concurrent          *)
(* requests, and the requests implement the atomic operations of           *)
(* SessionStore.                                                           *)
(*                                                                         *)
(* None of the properties is inductive.  What they lack is what a request  *)
(* under way knows, RequestOK, and that rows keep what it has read of them *)
(* (Keeps): a character never changes its account and never comes back to  *)
(* life.                                                                   *)
(***************************************************************************)
EXTENDS AuthStore, WellFoundedInduction, TLAPS

\* What a request knows when it sends its next statement.
RequestOK(q) ==
  /\ q.next \in Statements \ {"close", "account"} => q.account \in Accounts
  /\ q.next \in {"delete", "clear", "load", "bind"} => q.character \in Made
  /\ q.next = "account" =>
       /\ q.op \in {"list", "create", "delete", "load"}
       /\ q.op \in {"delete", "load"} => q.character \in Made
  /\ q.next \in {"clear", "bind"} => characters[q.character].account = q.account
  /\ q.next = "clear" => characters[q.character].is_deleted

RequestsOK == \A r \in Requests : requests[r] # Idle => RequestOK(requests[r])

\* A session that was ever opened has an account.
SessionsOK ==
  \A s \in Sessions : sessions[s].state # "none" => sessions[s].account \in Accounts

StoreInv ==
  /\ TypeOK
  /\ SessionsOK
  /\ RequestsOK
  /\ SelectedIsOwn
  /\ SlotsUsedOnce
  /\ DeadBindingExplained

-----------------------------------------------------------------------------
\* Characters keep their account, and the dead stay dead.
Keeps ==
  \A c \in Made :
    /\ characters'[c].account = characters[c].account
    /\ characters[c].is_deleted => characters'[c].is_deleted

\* The slot the code picks is one of the free ones.
LEMMA LeastSlot ==
  ASSUME NEW S, S \subseteq Nat, S # {}
  PROVE  Min(S) \in S
<1> DEFINE R == OpToRel(<, Nat)
<1>1. PICK x \in S : \A y \in S : ~(<<y, x>> \in R)
  BY NatLessThanWellFounded, WFMin, Zenon
<1>2. R = {ss \in Nat \X Nat : ss[1] < ss[2]}
  BY DEF OpToRel
<1>3. \A y \in S : x <= y
  <2> HIDE DEF R
  <2> TAKE y \in S
  <2>1. ~(y < x)
    BY <1>1, <1>2
  <2> QED BY <2>1
<1> QED
  BY <1>3 DEF Min

LEMMA FreeSlotIsOne ==
  ASSUME NEW a, FreeSlots(a) # {}
  PROVE  Min(FreeSlots(a)) \in Slots
<1>1. FreeSlots(a) \subseteq Slots
  BY DEF FreeSlots
<1>2. FreeSlots(a) \subseteq Nat
  BY <1>1, AuthConstants
<1> QED
  BY <1>1, <1>2, LeastSlot

\* A made character has an account.
LEMMA MadeHasAccount ==
  ASSUME TypeOK, NEW c \in Made
  PROVE  c \in Characters /\ characters[c].account \in Accounts
BY DEF TypeOK, Made, CharacterRow

\* A living character of an account is a made one.
LEMMA LivingIsMade ==
  ASSUME NEW a \in Accounts, NEW c \in Living(a)
  PROVE  c \in Made /\ characters[c].account = a /\ ~characters[c].is_deleted
BY AuthConstants DEF Living, Made

\* A step of the task of r that leaves the rows alone.
LEMMA ProceedTypes ==
  ASSUME TypeOK, NEW r \in Requests, requests[r] # Idle,
         NEW statement \in Statements, Proceed(r, statement)
  PROVE  /\ requests' \in [Requests -> Request \cup {Idle}]
         /\ \A x \in Requests \ {r} : requests'[x] = requests[x]
         /\ requests'[r] # Idle =>
              requests'[r] = [requests[r] EXCEPT !.next = statement]
<1>1. requests[r] \in Request
  BY DEF TypeOK
<1>2. CASE requests[r].abandoned
  BY <1>2 DEF TypeOK, Proceed, Finish
<1>3. CASE ~requests[r].abandoned
  <2>1. requests' = [requests EXCEPT ![r] = [requests[r] EXCEPT !.next = statement]]
    BY <1>3 DEF Proceed
  <2>2. [requests[r] EXCEPT !.next = statement] \in Request
    BY <1>1 DEF Request
  <2> QED
    BY <2>1, <2>2 DEF TypeOK
<1> QED
  BY <1>2, <1>3

LEMMA FinishTypes ==
  ASSUME TypeOK, NEW r \in Requests, Finish(r)
  PROVE  /\ requests' \in [Requests -> Request \cup {Idle}]
         /\ \A x \in Requests \ {r} : requests'[x] = requests[x]
         /\ requests'[r] = Idle
BY DEF TypeOK, Finish

\* A request that a step does not touch goes on knowing what it knew.
LEMMA KeptKnows ==
  ASSUME TypeOK, TypeOK', Keeps, NEW x, RequestOK(requests[x]), requests'[x] = requests[x]
  PROVE  RequestOK(requests[x])'
<1> DEFINE q == requests[x]
<1>1. q = requests[x]'
  OBVIOUS
<1>2. RequestOK(q)
  OBVIOUS
<1>3. Made \subseteq Made'
  BY AuthConstants DEF Keeps, Made
<1> HIDE DEF q
<1>4. /\ q.next \in {"delete", "clear", "load", "bind"} => q.character \in Made'
      /\ q.next = "account" /\ q.op \in {"delete", "load"} => q.character \in Made'
  BY <1>2, <1>3 DEF RequestOK
<1>5. q.next \in {"clear", "bind"} => characters'[q.character].account = q.account
  BY <1>2 DEF RequestOK, Keeps
<1>6. q.next = "clear" => characters'[q.character].is_deleted
  BY <1>2 DEF RequestOK, Keeps
<1> QED
  BY <1>1, <1>2, <1>4, <1>5, <1>6 DEF RequestOK

LEMMA OthersKnow ==
  ASSUME RequestsOK, Keeps, TypeOK, TypeOK',
         NEW r \in Requests, \A x \in Requests \ {r} : requests'[x] = requests[x],
         requests'[r] # Idle => RequestOK(requests[r])'
  PROVE  RequestsOK'
<1> SUFFICES ASSUME NEW x \in Requests, requests'[x] # Idle, x # r
             PROVE  RequestOK(requests[x])'
  BY DEF RequestsOK
<1>1. requests'[x] = requests[x] /\ RequestOK(requests[x])
  BY DEF RequestsOK
<1> QED
  BY <1>1, KeptKnows

-----------------------------------------------------------------------------
\* Types.

LEMMA ArriveTypes ==
  ASSUME TypeOK, NEW r \in Requests, Arrive(r)
  PROVE  TypeOK'
<1>1. PICK s \in Sessions :
        \/ \E a \in Accounts : Login(r, s, a)
        \/ Logout(r, s)
        \/ \E op \in Ops, c \in Characters \cup {NoCharacter} : CharacterOp(r, op, s, c)
        \/ \E c \in Characters : SelectCharacter(r, s, c)
  BY DEF Arrive
<1>2. \E q \in Request : requests' = [requests EXCEPT ![r] = q]
  BY <1>1 DEF Login, Logout, CharacterOp, SelectCharacter, Receive, Request, Ops,
              Statements
<1>3. UNCHANGED <<db, dangling>>
  BY <1>1 DEF Login, Logout, CharacterOp, SelectCharacter
<1> QED
  BY <1>2, <1>3 DEF TypeOK, db

\* A step of a request that has something to send.
LEMMA SenderKnown ==
  ASSUME TypeOK, RequestsOK, NEW r \in Requests, requests[r] # Idle
  PROVE  /\ requests[r] \in Request
         /\ requests[r].next \in Statements
         /\ requests[r].session \in Sessions
         /\ RequestOK(requests[r])
BY DEF TypeOK, RequestsOK, Request

LEMMA ReadTypes ==
  ASSUME TypeOK, RequestsOK, NEW r \in Requests, Read(r)
  PROVE  TypeOK'
<1>1. UNCHANGED <<db, dangling>>
  BY DEF Read, FindAccount, SessionAccount, ListCharacters, LoadCharacter
<1>2. requests' \in [Requests -> Request \cup {Idle}]
  <2>1. CASE \E valid \in BOOLEAN : FindAccount(r, valid)
    BY <2>1, ProceedTypes, FinishTypes DEF FindAccount, Sends, Statements
  <2>2. CASE SessionAccount(r)
    <3>1. requests[r] \in Request /\ requests[r].op \in Statements
      BY <2>2, SenderKnown DEF SessionAccount, Sends, RequestOK, Statements
    <3>2. sessions[requests[r].session].account \in Accounts \cup {NoAccount}
      BY <3>1 DEF TypeOK, SessionRow, Request
    <3>3. CASE Open(requests[r].session)
      <4> DEFINE q == [requests[r] EXCEPT !.next = requests[r].op,
                         !.account = sessions[requests[r].session].account]
      <4>1. q \in Request
        BY <3>1, <3>2 DEF Request
      <4>2. requests' = [requests EXCEPT ![r] = q]
        BY <2>2, <3>3 DEF SessionAccount
      <4> QED
        BY <4>1, <4>2 DEF TypeOK
    <3>4. CASE ~Open(requests[r].session)
      BY <2>2, <3>4, FinishTypes DEF SessionAccount
    <3> QED
      BY <3>3, <3>4
  <2>3. CASE ListCharacters(r)
    BY <2>3, FinishTypes DEF ListCharacters
  <2>4. CASE LoadCharacter(r)
    BY <2>4, ProceedTypes, FinishTypes DEF LoadCharacter, Sends, Statements
  <2> QED
    BY <2>1, <2>2, <2>3, <2>4 DEF Read
<1> QED
  BY <1>1, <1>2 DEF TypeOK, db

LEMMA WriteTypes ==
  ASSUME TypeOK, RequestsOK, NEW r \in Requests, Write(r)
  PROVE  TypeOK'
<1>0. /\ requests[r] # Idle
      /\ requests[r] \in Request
      /\ requests[r].session \in Sessions
      /\ RequestOK(requests[r])
  BY SenderKnown DEF Write, UpsertSession, CloseSession, CreateCharacter,
     DeleteCharacter, ClearBindings, BindSession, Sends
<1>1. CASE UpsertSession(r)
  <2>1. sessions' \in [Sessions -> SessionRow]
    BY <1>0, <1>1 DEF UpsertSession, TypeOK, SessionRow, Request
  <2> QED
    BY <1>1, <2>1, FinishTypes DEF UpsertSession, TypeOK
<1>2. CASE CloseSession(r)
  <2>1. sessions' \in [Sessions -> SessionRow]
    BY <1>0, <1>2 DEF CloseSession, TypeOK, SessionRow
  <2> QED
    BY <1>2, <2>1, FinishTypes DEF CloseSession, TypeOK
<1>3. CASE CreateCharacter(r)
  <2>1. characters' \in [Characters -> CharacterRow]
    <3> DEFINE a == requests[r].account
    <3>1. CASE FreeSlots(a) = {} \/ SlotTaken(a, Min(FreeSlots(a)))
      BY <1>3, <3>1 DEF CreateCharacter, TypeOK
    <3>2. CASE ~(FreeSlots(a) = {} \/ SlotTaken(a, Min(FreeSlots(a))))
      <4>1. Min(FreeSlots(a)) \in Slots
        BY <3>2, FreeSlotIsOne
      <4>2. PICK c \in Characters \ Made :
              characters' = [characters EXCEPT ![c] =
                [account |-> a, slot |-> Min(FreeSlots(a)), is_deleted |-> FALSE]]
        BY <1>3, <3>2 DEF CreateCharacter
      <4>3. a \in Accounts \cup {NoAccount}
        BY <1>0 DEF Request
      <4>4. [account |-> a, slot |-> Min(FreeSlots(a)), is_deleted |-> FALSE]
              \in CharacterRow
        BY <4>1, <4>3 DEF CharacterRow
      <4> QED
        BY <4>2, <4>4 DEF TypeOK
    <3> QED
      BY <3>1, <3>2
  <2> QED
    BY <1>3, <2>1, FinishTypes DEF CreateCharacter, TypeOK
<1>4. CASE DeleteCharacter(r)
  <2>1. requests[r].character \in Characters
    BY <1>0, <1>4 DEF DeleteCharacter, Sends, RequestOK, Made
  <2>2. characters' \in [Characters -> CharacterRow]
    BY <1>4, <2>1 DEF DeleteCharacter, TypeOK, CharacterRow
  <2>3. requests' \in [Requests -> Request \cup {Idle}]
    BY <1>0, <1>4, ProceedTypes, FinishTypes DEF DeleteCharacter, Statements
  <2> QED
    BY <1>4, <2>1, <2>2, <2>3 DEF DeleteCharacter, TypeOK
<1>5. CASE ClearBindings(r)
  <2>1. sessions' \in [Sessions -> SessionRow]
    BY <1>0, <1>5 DEF ClearBindings, TypeOK, SessionRow
  <2> QED
    BY <1>5, <2>1, FinishTypes DEF ClearBindings, TypeOK
<1>6. CASE BindSession(r)
  <2>1. requests[r].character \in Characters
    BY <1>0, <1>6 DEF BindSession, Sends, RequestOK, Made
  <2>2. sessions' \in [Sessions -> SessionRow]
    BY <1>0, <1>6, <2>1 DEF BindSession, TypeOK, SessionRow
  <2> QED
    BY <1>6, <2>1, <2>2, FinishTypes DEF BindSession, TypeOK
<1> QED
  BY <1>1, <1>2, <1>3, <1>4, <1>5, <1>6 DEF Write

LEMMA TypeStep ==
  ASSUME TypeOK, RequestsOK, [Next]_vars
  PROVE  TypeOK'
<1>1. CASE UNCHANGED vars
  BY <1>1 DEF TypeOK, vars, db
<1>2. ASSUME NEW r \in Requests, Drop(r)
      PROVE  TypeOK'
  <2>1. Sends(r, "clear") => requests[r].character \in Characters
    BY <1>2, SenderKnown DEF Sends, RequestOK, Made
  <2> QED
    BY <1>2, <2>1, FinishTypes DEF Drop, TypeOK, db
<1>3. ASSUME NEW r \in Requests, Abandon(r)
      PROVE  TypeOK'
  <2>1. requests' = [requests EXCEPT ![r] = [requests[r] EXCEPT !.abandoned = TRUE]]
    BY <1>3 DEF Abandon
  <2>2. [requests[r] EXCEPT !.abandoned = TRUE] \in Request
    BY <1>3, SenderKnown DEF Abandon, Request
  <2> QED
    BY <1>3, <2>1, <2>2 DEF Abandon, TypeOK, db
<1>4. ASSUME NEW due \in SUBSET Sessions, Sweep(due)
      PROVE  TypeOK'
  <2>1. sessions' \in [Sessions -> SessionRow]
    BY <1>4 DEF Sweep, TypeOK, SessionRow
  <2> QED
    BY <1>4, <2>1 DEF Sweep, TypeOK
<1> QED
  BY <1>1, <1>2, <1>3, <1>4, ArriveTypes, ReadTypes, WriteTypes DEF Next

-----------------------------------------------------------------------------
\* What happens to the rows.

\* A step that leaves the database alone is not one of these.
LEMMA DbSteps ==
  ASSUME [Next]_vars
  PROVE  \/ UNCHANGED db
         \/ \E r \in Requests : Write(r)
         \/ \E due \in SUBSET Sessions : Sweep(due)
BY DEF Next, Arrive, Login, Logout, CharacterOp, SelectCharacter, Read, FindAccount,
   SessionAccount, ListCharacters, LoadCharacter, Drop, Abandon, vars, db

LEMMA KeepsStep ==
  ASSUME TypeOK, RequestsOK, [Next]_vars
  PROVE  Keeps
<1>1. CASE UNCHANGED characters
  BY <1>1 DEF Keeps
<1>2. ASSUME NEW r \in Requests, CreateCharacter(r), ~UNCHANGED characters
      PROVE  Keeps
  <2>1. PICK c \in Characters \ Made, q \in [account : {requests[r].account},
               slot : {Min(FreeSlots(requests[r].account))}, is_deleted : {FALSE}] :
          characters' = [characters EXCEPT ![c] = q]
    BY <1>2 DEF CreateCharacter
  <2>2. \A d \in Made : characters'[d] = characters[d]
    BY <2>1 DEF TypeOK, Made
  <2> QED
    BY <2>2 DEF Keeps
<1>3. ASSUME NEW r \in Requests, DeleteCharacter(r), ~UNCHANGED characters
      PROVE  Keeps
  <2>1. characters' = [characters EXCEPT ![requests[r].character].is_deleted = TRUE]
    BY <1>3 DEF DeleteCharacter
  <2> QED
    BY <2>1 DEF Keeps, TypeOK, CharacterRow, Made
<1> QED
  BY <1>1, <1>2, <1>3, DbSteps DEF db, Write, UpsertSession, CloseSession, ClearBindings,
     BindSession, Sweep

LEMMA SessionsStep ==
  ASSUME TypeOK, SessionsOK, RequestsOK, [Next]_vars
  PROVE  SessionsOK'
<1>1. CASE UNCHANGED sessions
  BY <1>1 DEF SessionsOK
<1>2. ASSUME NEW r \in Requests, Write(r), ~UNCHANGED sessions
      PROVE  SessionsOK'
  <2>0. /\ requests[r] # Idle
        /\ requests[r].session \in Sessions
        /\ RequestOK(requests[r])
    BY <1>2, SenderKnown DEF Write, UpsertSession, CloseSession, CreateCharacter,
       DeleteCharacter, ClearBindings, BindSession, Sends
  <2>1. CASE UpsertSession(r)
    <3>1. requests[r].account \in Accounts
      BY <2>0, <2>1 DEF UpsertSession, Sends, RequestOK, Statements
    <3> QED
      BY <2>0, <2>1, <3>1 DEF UpsertSession, SessionsOK, TypeOK, SessionRow
  <2>2. CASE CloseSession(r)
    BY <2>0, <2>2 DEF CloseSession, SessionsOK, TypeOK, SessionRow
  <2>3. CASE ClearBindings(r)
    BY <2>0, <2>3 DEF ClearBindings, SessionsOK, TypeOK, SessionRow
  <2>4. CASE BindSession(r)
    BY <2>0, <2>4 DEF BindSession, Open, SessionsOK, TypeOK, SessionRow
  <2> QED
    BY <1>2, <2>1, <2>2, <2>3, <2>4 DEF Write, CreateCharacter, DeleteCharacter
<1>3. ASSUME NEW due \in SUBSET Sessions, Sweep(due)
      PROVE  SessionsOK'
  BY <1>3 DEF Sweep, Open, SessionsOK, TypeOK, SessionRow
<1> QED
  BY <1>1, <1>2, <1>3, DbSteps DEF db

-----------------------------------------------------------------------------
\* What happens to the requests.

LEMMA ArriveKnows ==
  ASSUME TypeOK, TypeOK', RequestsOK, Keeps, NEW r \in Requests, Arrive(r)
  PROVE  RequestsOK'
<1>1. /\ UNCHANGED characters
      /\ \A x \in Requests \ {r} : requests'[x] = requests[x]
  BY DEF Arrive, Login, Logout, CharacterOp, SelectCharacter, Receive, TypeOK, db
<1>2. PICK s \in Sessions :
        \/ \E a \in Accounts : Login(r, s, a)
        \/ Logout(r, s)
        \/ \E op \in Ops, c \in Characters \cup {NoCharacter} : CharacterOp(r, op, s, c)
        \/ \E c \in Characters : SelectCharacter(r, s, c)
  BY DEF Arrive
<1>3. RequestOK(requests[r])'
  <2>1. ASSUME NEW a \in Accounts, Login(r, s, a)
        PROVE  RequestOK(requests[r])'
    BY <2>1 DEF Login, Receive, TypeOK, RequestOK
  <2>2. CASE Logout(r, s)
    BY <2>2 DEF Logout, Receive, TypeOK, RequestOK
  <2>3. ASSUME NEW op \in Ops, NEW c \in Characters \cup {NoCharacter},
               CharacterOp(r, op, s, c)
        PROVE  RequestOK(requests[r])'
    BY <2>3, <1>1 DEF CharacterOp, Receive, TypeOK, RequestOK, Made
  <2>4. ASSUME NEW c \in Characters, SelectCharacter(r, s, c)
        PROVE  RequestOK(requests[r])'
    BY <2>4, <1>1 DEF SelectCharacter, Receive, TypeOK, RequestOK, Made
  <2> QED
    BY <1>2, <2>1, <2>2, <2>3, <2>4
<1> QED
  BY <1>1, <1>3, OthersKnow

LEMMA ReadKnows ==
  ASSUME TypeOK, TypeOK', SessionsOK, RequestsOK, Keeps, NEW r \in Requests, Read(r)
  PROVE  RequestsOK'
<1>0. /\ requests[r] # Idle
      /\ requests[r] \in Request
      /\ requests[r].session \in Sessions
      /\ RequestOK(requests[r])
  BY SenderKnown DEF Read, FindAccount, SessionAccount, ListCharacters, LoadCharacter,
     Sends
<1>1. /\ UNCHANGED <<sessions, characters>>
      /\ Made' = Made
  BY DEF Read, FindAccount, SessionAccount, ListCharacters, LoadCharacter, db, Made
<1>2. ASSUME NEW valid \in BOOLEAN, FindAccount(r, valid)
      PROVE  RequestsOK'
  <2>1. \A x \in Requests \ {r} : requests'[x] = requests[x]
    BY <1>0, <1>2, ProceedTypes, FinishTypes DEF FindAccount, Statements
  <2>2. requests'[r] # Idle => requests'[r] = [requests[r] EXCEPT !.next = "upsert"]
    BY <1>0, <1>2, ProceedTypes, FinishTypes DEF FindAccount, Statements
  <2>3. requests'[r] # Idle => RequestOK(requests[r])'
    BY <1>0, <1>2, <2>2 DEF FindAccount, Sends, RequestOK, Request, Statements
  <2> QED
    BY <2>1, <2>3, OthersKnow
<1>3. CASE SessionAccount(r)
  <2> DEFINE s == requests[r].session
  <2>1. CASE Open(s)
    <3> DEFINE q == [requests[r] EXCEPT !.next = requests[r].op,
                                        !.account = sessions[s].account]
    <3>1. requests' = [requests EXCEPT ![r] = q]
      BY <1>3, <2>1 DEF SessionAccount
    <3>2. sessions[s].account \in Accounts
      BY <1>0, <2>1 DEF Open, SessionsOK
    <3>3. /\ q.next = requests[r].op
          /\ q.account = sessions[s].account
          /\ q.character = requests[r].character
      BY <1>0 DEF Request
    <3>4. /\ requests[r].op \in {"list", "create", "delete", "load"}
          /\ requests[r].op \in {"delete", "load"} => requests[r].character \in Made
      BY <1>0, <1>3 DEF SessionAccount, Sends, RequestOK
    <3>5. requests'[r] = q
      BY <3>1 DEF TypeOK
    <3> HIDE DEF q
    <3>6. RequestOK(requests[r])'
      BY <1>1, <3>2, <3>3, <3>4, <3>5 DEF RequestOK
    <3> QED
      BY <3>1, <3>6, OthersKnow DEF TypeOK
  <2>2. CASE ~Open(s)
    BY <1>3, <2>2, FinishTypes, OthersKnow DEF SessionAccount
  <2> QED
    BY <2>1, <2>2
<1>4. CASE ListCharacters(r)
  BY <1>4, FinishTypes, OthersKnow DEF ListCharacters
<1>5. CASE LoadCharacter(r)
  <2>1. \A x \in Requests \ {r} : requests'[x] = requests[x]
    BY <1>0, <1>5, ProceedTypes, FinishTypes DEF LoadCharacter, Statements
  <2>2. ASSUME requests'[r] # Idle
        PROVE  RequestOK(requests[r])'
    <3>1. /\ requests[r].character \in Living(requests[r].account)
          /\ requests'[r] = [requests[r] EXCEPT !.next = "bind"]
      BY <1>0, <1>5, <2>2, ProceedTypes, FinishTypes DEF LoadCharacter, Statements
    <3>2. /\ requests'[r].next = "bind"
          /\ requests'[r].account = requests[r].account
          /\ requests'[r].character = requests[r].character
      BY <1>0, <3>1 DEF Request
    <3>3. requests[r].account \in Accounts /\ requests[r].character \in Made
      BY <1>0, <1>5 DEF LoadCharacter, Sends, RequestOK, Statements
    <3>4. characters[requests[r].character].account = requests[r].account
      BY <3>1 DEF Living
    <3> QED
      BY <1>1, <3>2, <3>3, <3>4 DEF RequestOK
  <2> QED
    BY <2>1, <2>2, OthersKnow
<1> QED
  BY <1>2, <1>3, <1>4, <1>5 DEF Read

LEMMA DeleteKnows ==
  ASSUME TypeOK, TypeOK', RequestsOK, Keeps, NEW r \in Requests, DeleteCharacter(r)
  PROVE  RequestsOK'
<1>0. /\ requests[r] # Idle
      /\ requests[r] \in Request
      /\ RequestOK(requests[r])
  BY SenderKnown DEF DeleteCharacter, Sends
<1>1. \A x \in Requests \ {r} : requests'[x] = requests[x]
  BY <1>0, ProceedTypes, FinishTypes DEF DeleteCharacter, Statements
<1> DEFINE c == requests[r].character
<1>2. ASSUME requests'[r] # Idle
      PROVE  RequestOK(requests[r])'
  <2>1. /\ c \in Living(requests[r].account)
        /\ characters' = [characters EXCEPT ![c].is_deleted = TRUE]
        /\ requests'[r] = [requests[r] EXCEPT !.next = "clear"]
    BY <1>0, <1>2, ProceedTypes, FinishTypes DEF DeleteCharacter, Statements
  <2>2. /\ requests'[r].next = "clear"
        /\ requests'[r].account = requests[r].account
        /\ requests'[r].character = c
    BY <1>0, <2>1 DEF Request
  <2>3. requests[r].account \in Accounts /\ c \in Made
    BY <1>0 DEF DeleteCharacter, Sends, RequestOK, Statements
  <2>4. /\ characters'[c].account = requests[r].account
        /\ characters'[c].is_deleted
    BY <2>1, <2>3 DEF Living, TypeOK, CharacterRow, Made
  <2>5. c \in Made'
    BY <2>3, <2>4, AuthConstants DEF Made
  <2> QED
    BY <2>2, <2>3, <2>4, <2>5 DEF RequestOK
<1> QED
  BY <1>1, <1>2, OthersKnow

LEMMA RequestsStep ==
  ASSUME TypeOK, TypeOK', SessionsOK, RequestsOK, Keeps, [Next]_vars
  PROVE  RequestsOK'
<1>1. CASE UNCHANGED requests
  <2> SUFFICES ASSUME NEW x \in Requests, requests[x] # Idle
               PROVE  RequestOK(requests[x])'
    BY <1>1 DEF RequestsOK
  <2> QED
    BY <1>1, KeptKnows DEF RequestsOK
<1>2. ASSUME NEW r \in Requests, Finish(r)
      PROVE  RequestsOK'
  BY <1>2, FinishTypes, OthersKnow
<1>3. ASSUME NEW r \in Requests, Abandon(r)
      PROVE  RequestsOK'
  <2>1. requests' = [requests EXCEPT ![r] = [requests[r] EXCEPT !.abandoned = TRUE]]
    BY <1>3 DEF Abandon
  <2>2. requests[r] \in Request /\ RequestOK(requests[r])
    BY <1>3, SenderKnown DEF Abandon
  <2>3. /\ requests'[r].next = requests[r].next
        /\ requests'[r].op = requests[r].op
        /\ requests'[r].account = requests[r].account
        /\ requests'[r].character = requests[r].character
    BY <2>1, <2>2 DEF TypeOK, Request
  <2>4. UNCHANGED characters /\ Made' = Made
    BY <1>3 DEF Abandon, db, Made
  <2>5. RequestOK(requests[r])'
    BY <2>2, <2>3, <2>4 DEF RequestOK
  <2> QED
    BY <2>1, <2>5, OthersKnow DEF TypeOK
<1>4. ASSUME NEW r \in Requests, Write(r)
      PROVE  RequestsOK'
  BY <1>2, <1>4, DeleteKnows DEF Write, UpsertSession, CloseSession, CreateCharacter,
     ClearBindings, BindSession
<1> QED
  BY <1>1, <1>2, <1>3, <1>4, ArriveKnows, ReadKnows DEF Next, Drop, Sweep, vars

-----------------------------------------------------------------------------
\* What a session plays.

\* A session in play has a made character of its own account.
LEMMA InPlayHasMade ==
  ASSUME TypeOK, SessionsOK, SelectedIsOwn, NEW s \in Sessions, InPlay(s)
  PROVE  /\ sessions[s].character \in Made
         /\ characters[sessions[s].character].account = sessions[s].account
         /\ sessions[s].account \in Accounts
<1>1. sessions[s].character \in Characters
  BY DEF TypeOK, SessionRow, InPlay
<1>2. sessions[s].account \in Accounts
  BY DEF SessionsOK, InPlay
<1>3. characters[sessions[s].character].account = sessions[s].account
  BY DEF SelectedIsOwn
<1> QED
  BY <1>1, <1>2, <1>3, AuthConstants DEF Made

\* What a write does to the sessions: those that are in play afterwards were so
\* before, but for the one that selects.
LEMMA WriteKeepsPlay ==
  ASSUME TypeOK, TypeOK', RequestsOK, NEW r \in Requests, Write(r), ~BindSession(r),
         NEW s \in Sessions, InPlay(s)'
  PROVE  InPlay(s) /\ sessions'[s] = sessions[s]
<1>0. requests[r] # Idle /\ requests[r].session \in Sessions
  BY SenderKnown DEF Write, UpsertSession, CloseSession, CreateCharacter,
     DeleteCharacter, ClearBindings, BindSession, Sends
<1>1. CASE UpsertSession(r)
  BY <1>0, <1>1 DEF UpsertSession, InPlay, TypeOK, SessionRow
<1>2. CASE CloseSession(r)
  BY <1>0, <1>2 DEF CloseSession, InPlay, TypeOK, SessionRow
<1>3. CASE ClearBindings(r)
  BY <1>0, <1>3 DEF ClearBindings, InPlay, TypeOK, SessionRow
<1>4. CASE CreateCharacter(r) \/ DeleteCharacter(r)
  BY <1>4 DEF CreateCharacter, DeleteCharacter, InPlay
<1> QED
  BY <1>1, <1>2, <1>3, <1>4 DEF Write

LEMMA SweepKeepsPlay ==
  ASSUME TypeOK, NEW due \in SUBSET Sessions, Sweep(due), NEW s \in Sessions, InPlay(s)'
  PROVE  InPlay(s) /\ sessions'[s] = sessions[s]
BY DEF Sweep, InPlay, TypeOK, SessionRow

\* A selection: the request knows an account and one of its characters.
LEMMA BindKnows ==
  ASSUME TypeOK, RequestsOK, NEW r \in Requests, BindSession(r)
  PROVE  /\ requests[r].session \in Sessions
         /\ requests[r].character \in Made
         /\ requests[r].account \in Accounts
         /\ characters[requests[r].character].account = requests[r].account
BY SenderKnown DEF BindSession, Sends, RequestOK, Statements

LEMMA BindEffect ==
  ASSUME TypeOK, RequestsOK, NEW r \in Requests, BindSession(r), NEW s \in Sessions
  PROVE  \/ sessions'[s] = sessions[s]
         \/ /\ s = requests[r].session
            /\ sessions[s].account = requests[r].account
            /\ Open(s)
            /\ sessions'[s] = [sessions[s] EXCEPT !.character = requests[r].character,
                                                  !.state = "character_selected"]
            /\ sessions'[s].account = requests[r].account
            /\ sessions'[s].character = requests[r].character
            /\ sessions'[s].state = "character_selected"
<1> DEFINE q == requests[r]
<1>1. q.session \in Sessions
  BY BindKnows
<1>2. CASE sessions[q.session].account = q.account /\ Open(q.session) /\ s = q.session
  <2>1. sessions' = [sessions EXCEPT ![q.session].character = q.character,
                                     ![q.session].state = "character_selected"]
    BY <1>2 DEF BindSession
  <2>2. sessions'[s] = [sessions[s] EXCEPT !.character = q.character,
                                           !.state = "character_selected"]
    BY <1>1, <1>2, <2>1 DEF TypeOK
  <2>3. sessions[s] \in SessionRow
    BY DEF TypeOK
  <2> HIDE DEF q
  <2>4. /\ sessions'[s].account = sessions[s].account
        /\ sessions'[s].character = q.character
        /\ sessions'[s].state = "character_selected"
    BY <2>2, <2>3 DEF SessionRow
  <2> QED
    BY <1>2, <2>2, <2>4 DEF q
<1>3. CASE ~(sessions[q.session].account = q.account /\ Open(q.session) /\ s = q.session)
  BY <1>1, <1>3 DEF BindSession, TypeOK
<1> QED
  BY <1>2, <1>3

LEMMA OwnStep ==
  ASSUME TypeOK, TypeOK', SessionsOK, RequestsOK, SelectedIsOwn, Keeps, [Next]_vars
  PROVE  SelectedIsOwn'
<1> SUFFICES ASSUME NEW s \in Sessions, InPlay(s)'
             PROVE  (characters[sessions[s].character].account = sessions[s].account)'
  BY DEF SelectedIsOwn
<1>1. ASSUME InPlay(s), sessions'[s] = sessions[s]
      PROVE  (characters[sessions[s].character].account = sessions[s].account)'
  BY <1>1, InPlayHasMade DEF Keeps
<1>2. ASSUME NEW r \in Requests, BindSession(r)
      PROVE  (characters[sessions[s].character].account = sessions[s].account)'
  <2>1. CASE sessions'[s] = sessions[s]
    BY <1>1, <2>1 DEF InPlay
  <2>2. CASE sessions'[s] # sessions[s]
    <3>1. /\ sessions'[s].account = requests[r].account
          /\ sessions'[s].character = requests[r].character
      BY <1>2, <2>2, BindEffect
    <3>2. characters'[requests[r].character].account = requests[r].account
      BY <1>2, BindKnows DEF Keeps
    <3> QED
      BY <3>1, <3>2
  <2> QED
    BY <2>1, <2>2
<1>3. CASE UNCHANGED db
  BY <1>1, <1>3 DEF db, InPlay
<1> QED
  BY <1>1, <1>2, <1>3, DbSteps, WriteKeepsPlay, SweepKeepsPlay

-----------------------------------------------------------------------------
\* Slots.

\* What a creation does: nothing, or a new living character in a slot nobody of
\* its account has had.
LEMMA CreateEffect ==
  ASSUME TypeOK, RequestsOK, NEW r \in Requests, CreateCharacter(r),
         ~UNCHANGED characters
  PROVE  \E c \in Characters \ Made, k \in Slots :
           /\ requests[r].account \in Accounts
           /\ ~SlotTaken(requests[r].account, k)
           /\ characters' = [characters EXCEPT ![c] =
                [account |-> requests[r].account, slot |-> k, is_deleted |-> FALSE]]
<1> DEFINE a == requests[r].account
           k == Min(FreeSlots(a))
<1>1. ~(FreeSlots(a) = {} \/ SlotTaken(a, k))
  BY DEF CreateCharacter
<1>2. a \in Accounts
  BY SenderKnown DEF CreateCharacter, Sends, RequestOK, Statements
<1>3. k \in Slots
  BY <1>1, FreeSlotIsOne
<1> QED
  BY <1>1, <1>2, <1>3 DEF CreateCharacter

LEMMA CreateMade ==
  ASSUME TypeOK, NEW c \in Characters \ Made, NEW k \in Slots, NEW a \in Accounts,
         characters' = [characters EXCEPT ![c] =
           [account |-> a, slot |-> k, is_deleted |-> FALSE]]
  PROVE  /\ Made' = Made \cup {c}
         /\ \A d \in Made : characters'[d] = characters[d]
         /\ characters'[c] = [account |-> a, slot |-> k, is_deleted |-> FALSE]
BY AuthConstants DEF TypeOK, Made

\* A deletion marks a character of its account, or does nothing.
LEMMA DeleteEffect ==
  ASSUME TypeOK, RequestsOK, NEW r \in Requests, DeleteCharacter(r)
  PROVE  \/ UNCHANGED characters /\ Finish(r)
         \/ /\ requests[r].account \in Accounts
            /\ requests[r].character \in Living(requests[r].account)
            /\ requests[r].character \in Made
            /\ characters' = [characters EXCEPT ![requests[r].character].is_deleted = TRUE]
BY SenderKnown, LivingIsMade DEF DeleteCharacter, Sends, RequestOK, Statements

LEMMA DeleteMade ==
  ASSUME TypeOK, NEW c \in Made,
         characters' = [characters EXCEPT ![c].is_deleted = TRUE]
  PROVE  /\ Made' = Made
         /\ characters'[c].is_deleted
         /\ \A d \in Characters : /\ characters'[d].account = characters[d].account
                                  /\ characters'[d].slot = characters[d].slot
                                  /\ d # c => characters'[d] = characters[d]
BY DEF TypeOK, CharacterRow, Made

LEMMA SlotsStep ==
  ASSUME TypeOK, RequestsOK, SlotsUsedOnce, [Next]_vars
  PROVE  SlotsUsedOnce'
<1>1. CASE UNCHANGED characters
  BY <1>1 DEF SlotsUsedOnce, Made
<1>2. ASSUME NEW r \in Requests, CreateCharacter(r), ~UNCHANGED characters
      PROVE  SlotsUsedOnce'
  <2>1. PICK c \in Characters \ Made, k \in Slots :
          /\ requests[r].account \in Accounts
          /\ ~SlotTaken(requests[r].account, k)
          /\ characters' = [characters EXCEPT ![c] =
               [account |-> requests[r].account, slot |-> k, is_deleted |-> FALSE]]
    BY <1>2, CreateEffect
  <2>2. /\ Made' = Made \cup {c}
        /\ \A d \in Made : characters'[d] = characters[d]
        /\ characters'[c] = [account |-> requests[r].account, slot |-> k,
                             is_deleted |-> FALSE]
    BY <2>1, CreateMade
  <2>3. characters'[c].account = requests[r].account /\ characters'[c].slot = k
    BY <2>2
  <2> QED
    BY <2>1, <2>2, <2>3 DEF SlotsUsedOnce, SlotTaken
<1>3. ASSUME NEW r \in Requests, DeleteCharacter(r), ~UNCHANGED characters
      PROVE  SlotsUsedOnce'
  <2>1. PICK c \in Made : characters' = [characters EXCEPT ![c].is_deleted = TRUE]
    BY <1>3, DeleteEffect
  <2>2. /\ Made' = Made
        /\ \A d \in Made : /\ characters'[d].account = characters[d].account
                           /\ characters'[d].slot = characters[d].slot
    BY <2>1, DeleteMade DEF Made
  <2> QED
    BY <2>2 DEF SlotsUsedOnce
<1> QED
  BY <1>1, <1>2, <1>3, DbSteps DEF db, Write, UpsertSession, CloseSession, ClearBindings,
     BindSession, Sweep

-----------------------------------------------------------------------------
\* Deleted characters that are still played.

\* A binding to a deleted character is explained.
Explained(c) ==
  \/ c \in dangling
  \/ \E r \in Requests : Sends(r, "clear") /\ requests[r].character = c

LEMMA DeadBindings ==
  DeadBindingExplained <=>
    \A s \in Sessions : InPlay(s) /\ characters[sessions[s].character].is_deleted =>
      Explained(sessions[s].character)
BY DEF DeadBindingExplained, Explained

\* An explanation lasts until the sessions have let go.
LEMMA ExplanationStep ==
  ASSUME TypeOK, RequestsOK, [Next]_vars, NEW c, Explained(c)
  PROVE  \/ Explained(c)'
         \/ \E r \in Requests : ClearBindings(r) /\ requests[r].character = c
<1>1. dangling \subseteq dangling'
  BY DEF Next, Arrive, Login, Logout, CharacterOp, SelectCharacter, Read, FindAccount,
     SessionAccount, ListCharacters, LoadCharacter, Write, UpsertSession, CloseSession,
     CreateCharacter, DeleteCharacter, ClearBindings, BindSession, Drop, Abandon, Sweep,
     vars
<1>2. CASE c \in dangling
  BY <1>1, <1>2 DEF Explained
<1>3. ASSUME NEW x \in Requests, Sends(x, "clear"), requests[x].character = c
      PROVE  \/ Explained(c)'
             \/ \E r \in Requests : ClearBindings(r) /\ requests[r].character = c
  <2>1. CASE requests'[x] = requests[x]
    BY <1>3, <2>1 DEF Explained, Sends
  <2>2. CASE ClearBindings(x)
    BY <1>3, <2>2
  <2>3. CASE Drop(x)
    BY <1>3, <2>3 DEF Drop, Explained
  <2>4. CASE Abandon(x)
    <3>1. requests' = [requests EXCEPT ![x] = [requests[x] EXCEPT !.abandoned = TRUE]]
      BY <2>4 DEF Abandon
    <3>2. requests[x] \in Request
      BY <1>3, SenderKnown DEF Sends
    <3>3. requests'[x] = [requests[x] EXCEPT !.abandoned = TRUE]
      BY <3>1 DEF TypeOK
    <3>4. /\ requests'[x].next = "clear"
          /\ requests'[x].character = c
          /\ requests'[x].op \in Ops
      BY <1>3, <3>2, <3>3 DEF Sends, Request
    <3>5. requests'[x] # Idle
      BY <3>4 DEF Idle, Ops
    <3> QED
      BY <3>4, <3>5 DEF Explained, Sends
  <2>5. ASSUME NEW r \in Requests, r # x,
               Arrive(r) \/ Read(r) \/ Write(r) \/ Drop(r) \/ Abandon(r)
        PROVE  requests'[x] = requests[x]
    BY <2>5 DEF Arrive, Login, Logout, CharacterOp, SelectCharacter, Receive, Read,
       FindAccount, SessionAccount, ListCharacters, LoadCharacter, Write, UpsertSession,
       CloseSession, CreateCharacter, DeleteCharacter, ClearBindings, BindSession, Drop,
       Abandon, Finish, Proceed, TypeOK
  <2>6. ~Arrive(x) /\ ~Read(x)
    BY <1>3 DEF Sends, Arrive, Login, Logout, CharacterOp, SelectCharacter, Receive, Read,
       FindAccount, SessionAccount, ListCharacters, LoadCharacter
  <2>7. Write(x) => ClearBindings(x)
    BY <1>3 DEF Sends, Write, UpsertSession, CloseSession, CreateCharacter,
       DeleteCharacter, BindSession
  <2> QED
    BY <2>1, <2>2, <2>3, <2>4, <2>5, <2>6, <2>7 DEF Next, Sweep, vars
<1> QED
  BY <1>2, <1>3 DEF Explained

\* After the second statement of a deletion nobody plays the character.
LEMMA ClearedIsGone ==
  ASSUME TypeOK, TypeOK', SessionsOK, RequestsOK, SelectedIsOwn,
         NEW r \in Requests, ClearBindings(r), NEW s \in Sessions, InPlay(s)'
  PROVE  sessions'[s].character # requests[r].character
<1>1. InPlay(s) /\ sessions'[s] = sessions[s]
  BY WriteKeepsPlay DEF Write, ClearBindings, BindSession, Sends
<1>2. characters[requests[r].character].account = requests[r].account
  BY SenderKnown DEF ClearBindings, Sends, RequestOK
<1>3. SUFFICES ASSUME sessions[s].character = requests[r].character
               PROVE  FALSE
  BY <1>1
<1>4. sessions[s].account = requests[r].account /\ Open(s)
  BY <1>1, <1>2, <1>3, InPlayHasMade DEF InPlay, Open
<1>5. sessions'[s] = [sessions[s] EXCEPT !.character = NoCharacter]
  BY <1>3, <1>4 DEF ClearBindings
<1> QED
  BY <1>5 DEF InPlay, TypeOK, SessionRow

LEMMA DeadStep ==
  ASSUME TypeOK, TypeOK', SessionsOK, RequestsOK, SelectedIsOwn, DeadBindingExplained,
         Keeps, [Next]_vars
  PROVE  DeadBindingExplained'
<1> SUFFICES ASSUME NEW s \in Sessions, InPlay(s)',
                    NEW c, c = sessions'[s].character, characters'[c].is_deleted
             PROVE  Explained(c)'
  BY DEF DeadBindingExplained, Explained
<1>1. ASSUME InPlay(s), sessions'[s] = sessions[s], characters[c].is_deleted
      PROVE  Explained(c)'
  <2>1. Explained(c)
    BY <1>1, DeadBindings
  <2>2. ASSUME NEW r \in Requests, ClearBindings(r), requests[r].character = c
        PROVE  FALSE
    BY <2>2, ClearedIsGone
  <2> QED
    BY <2>1, <2>2, ExplanationStep
<1>2. ASSUME InPlay(s), sessions'[s] = sessions[s], UNCHANGED characters
      PROVE  Explained(c)'
  BY <1>1, <1>2
<1>3. ASSUME NEW r \in Requests, CreateCharacter(r)
      PROVE  Explained(c)'
  <2>1. InPlay(s) /\ sessions'[s] = sessions[s]
    BY <1>3, WriteKeepsPlay DEF Write, CreateCharacter, BindSession, Sends
  <2>2. c \in Made
    BY <2>1, InPlayHasMade
  <2>3. CASE ~UNCHANGED characters
    <3>1. PICK d \in Characters \ Made, k \in Slots :
            /\ requests[r].account \in Accounts
            /\ characters' = [characters EXCEPT ![d] =
                 [account |-> requests[r].account, slot |-> k, is_deleted |-> FALSE]]
      BY <1>3, <2>3, CreateEffect
    <3>2. characters'[c] = characters[c]
      BY <2>2, <3>1, CreateMade
    <3> QED
      BY <1>1, <2>1, <3>2
  <2> QED
    BY <1>2, <2>1, <2>3
<1>4. ASSUME NEW r \in Requests, DeleteCharacter(r)
      PROVE  Explained(c)'
  <2> DEFINE q == requests[r]
  <2>1. InPlay(s) /\ sessions'[s] = sessions[s]
    BY <1>4, WriteKeepsPlay DEF Write, DeleteCharacter, BindSession, Sends
  <2>2. c \in Made
    BY <2>1, InPlayHasMade
  <2>3. ASSUME ~characters[c].is_deleted
        PROVE  Explained(c)'
    <3>1. /\ q.character \in Living(q.account)
          /\ q.character \in Made
          /\ characters' = [characters EXCEPT ![q.character].is_deleted = TRUE]
      BY <1>4, <2>3, DeleteEffect
    <3>2. c = q.character
      BY <2>2, <2>3, <3>1, DeleteMade DEF Made
    <3>3. CASE q.abandoned
      BY <1>4, <3>1, <3>2, <3>3 DEF DeleteCharacter, Explained
    <3>4. CASE ~q.abandoned
      <4>1. q \in Request /\ q # Idle
        BY <1>4, SenderKnown DEF DeleteCharacter, Sends
      <4>2. requests' = [requests EXCEPT ![r] = [q EXCEPT !.next = "clear"]]
        BY <1>4, <3>1, <3>4 DEF DeleteCharacter, Proceed
      <4>3. requests'[r] = [q EXCEPT !.next = "clear"]
        BY <4>2 DEF TypeOK
      <4> HIDE DEF q
      <4>4. /\ requests'[r].next = "clear"
            /\ requests'[r].character = c
            /\ requests'[r].op \in Ops
        BY <3>2, <4>1, <4>3 DEF Request
      <4>5. requests'[r] # Idle
        BY <4>4 DEF Idle, Ops
      <4> QED
        BY <4>4, <4>5 DEF Explained, Sends
    <3> QED
      BY <3>3, <3>4
  <2> QED
    BY <1>1, <2>1, <2>3
<1>5. ASSUME NEW r \in Requests, BindSession(r)
      PROVE  Explained(c)'
  <2>1. CASE sessions'[s] = sessions[s]
    BY <1>2, <1>5, <2>1 DEF BindSession, InPlay
  <2>2. CASE sessions'[s] # sessions[s]
    <3>1. c = requests[r].character
      BY <1>5, <2>2, BindEffect
    <3>2. characters[c].is_deleted
      BY <1>5 DEF BindSession
    <3>3. c \in dangling'
      BY <1>5, <3>1, <3>2 DEF BindSession
    <3> QED
      BY <3>3 DEF Explained
  <2> QED
    BY <2>1, <2>2
<1>6. ASSUME NEW r \in Requests, UpsertSession(r) \/ CloseSession(r) \/ ClearBindings(r)
      PROVE  Explained(c)'
  <2>1. ~BindSession(r) /\ UNCHANGED characters
    BY <1>6 DEF UpsertSession, CloseSession, ClearBindings, BindSession, Sends
  <2> QED
    BY <1>2, <1>6, <2>1, WriteKeepsPlay DEF Write
<1>7. ASSUME NEW due \in SUBSET Sessions, Sweep(due)
      PROVE  Explained(c)'
  BY <1>2, <1>7, SweepKeepsPlay DEF Sweep
<1>8. CASE UNCHANGED db
  BY <1>2, <1>8 DEF db, InPlay
<1> QED
  BY <1>3, <1>4, <1>5, <1>6, <1>7, <1>8, DbSteps DEF Write

-----------------------------------------------------------------------------
\* The refinement: what SessionStore sees of the rows.

Holder(s)  == IF Open(s) THEN sessions[s].account ELSE NoAccount
Playing(s) == IF InPlay(s) /\ ~characters[sessions[s].character].is_deleted
              THEN sessions[s].character ELSE NoCharacter
Roster     == {<<characters[c].account, characters[c].slot, c>> :
                 c \in {d \in Made : ~characters[d].is_deleted}}

\* A step on the sessions alone.
LEMMA RosterKept ==
  ASSUME UNCHANGED characters
  PROVE  Roster' = Roster /\ Made' = Made
BY DEF Roster, Made

\* The abstract operations, session by session.
LEMMA OpenForm ==
  ASSUME NEW u \in Sessions, NEW a,
         \A s \in Sessions : /\ Holder(s)' = IF s = u THEN a ELSE Holder(s)
                             /\ Playing(s)' = IF s = u THEN NoCharacter ELSE Playing(s),
         UNCHANGED <<Roster, Made>>
  PROVE  Store!Open(u, a)
BY DEF Store!Open, Holder, Playing, Roster

LEMMA CloseForm ==
  ASSUME NEW S \in SUBSET Sessions,
         \A s \in Sessions : /\ Holder(s)' = IF s \in S THEN NoAccount ELSE Holder(s)
                             /\ Playing(s)' = IF s \in S THEN NoCharacter ELSE Playing(s),
         UNCHANGED <<Roster, Made>>
  PROVE  Store!Close(S)
BY DEF Store!Close, Holder, Playing, Roster

LEMMA StutterForm ==
  ASSUME \A s \in Sessions : Holder(s)' = Holder(s) /\ Playing(s)' = Playing(s),
         UNCHANGED <<Roster, Made>>
  PROVE  UNCHANGED Store!vars
BY DEF Store!vars, Holder, Playing, Roster

LEMMA UpsertRefines ==
  ASSUME TypeOK, RequestsOK, NEW r \in Requests, UpsertSession(r)
  PROVE  \E s \in Sessions, a \in Accounts : Store!Open(s, a)
<1> DEFINE u == requests[r].session
           a == requests[r].account
<1>1. u \in Sessions /\ a \in Accounts
  BY SenderKnown DEF UpsertSession, Sends, RequestOK, Statements
<1>2. UNCHANGED characters
  BY DEF UpsertSession
<1>3. \A s \in Sessions : /\ s # u => sessions'[s] = sessions[s]
                          /\ s = u => /\ sessions'[s].state = "authenticated"
                                      /\ sessions'[s].account = a
  BY <1>1 DEF UpsertSession, TypeOK, SessionRow
<1> HIDE DEF u, a
<1>4. \A s \in Sessions : Holder(s)' = IF s = u THEN a ELSE Holder(s)
  BY <1>3 DEF Holder, Open
<1>5. \A s \in Sessions : Playing(s)' = IF s = u THEN NoCharacter ELSE Playing(s)
  BY <1>2, <1>3 DEF Playing, InPlay
<1> QED
  BY <1>1, <1>2, <1>4, <1>5, RosterKept, OpenForm

\* A session that is closed plays nothing.
LEMMA ClosesRefine ==
  ASSUME TypeOK, NEW S \in SUBSET Sessions, UNCHANGED characters,
         \A s \in Sessions :
           /\ sessions'[s].state = IF s \in S /\ sessions[s].state # "none" THEN "closed"
                                   ELSE sessions[s].state
           /\ sessions'[s].account = sessions[s].account
           /\ sessions'[s].character = sessions[s].character
  PROVE  Store!Close(S)
<1>1. \A s \in Sessions : Holder(s)' = IF s \in S THEN NoAccount ELSE Holder(s)
  BY DEF Holder, Open
<1>2. \A s \in Sessions : Playing(s)' = IF s \in S THEN NoCharacter ELSE Playing(s)
  BY DEF Playing, InPlay
<1> QED
  BY <1>1, <1>2, RosterKept, CloseForm

LEMMA CloseRefines ==
  ASSUME TypeOK, RequestsOK, NEW r \in Requests, CloseSession(r)
  PROVE  \E S \in SUBSET Sessions : Store!Close(S)
<1>1. PICK u \in Sessions : u = requests[r].session
  BY SenderKnown DEF CloseSession, Sends
<1>2. \A s \in Sessions :
        /\ sessions'[s].state = IF s \in {u} /\ sessions[s].state # "none" THEN "closed"
                                ELSE sessions[s].state
        /\ sessions'[s].account = sessions[s].account
        /\ sessions'[s].character = sessions[s].character
  BY <1>1 DEF CloseSession, TypeOK, SessionRow
<1>3. UNCHANGED characters /\ {u} \in SUBSET Sessions
  BY <1>1 DEF CloseSession
<1>4. Store!Close({u})
  BY <1>2, <1>3, ClosesRefine
<1> QED
  BY <1>3, <1>4

LEMMA SweepRefines ==
  ASSUME TypeOK, NEW due \in SUBSET Sessions, Sweep(due)
  PROVE  Store!Close(due)
<1>1. \A s \in Sessions :
        /\ sessions'[s].state = IF s \in due /\ sessions[s].state # "none" THEN "closed"
                                ELSE sessions[s].state
        /\ sessions'[s].account = sessions[s].account
        /\ sessions'[s].character = sessions[s].character
  BY DEF Sweep, Open, TypeOK, SessionRow
<1> QED
  BY <1>1, ClosesRefine DEF Sweep

LEMMA CreateRefines ==
  ASSUME StoreInv, NEW r \in Requests, CreateCharacter(r), ~UNCHANGED characters
  PROVE  \E a \in Accounts, k \in Slots, c \in Characters : Store!Create(a, k, c)
<1> DEFINE a == requests[r].account
<1>1. PICK c \in Characters \ Made, k \in Slots :
        /\ a \in Accounts
        /\ ~SlotTaken(a, k)
        /\ characters' = [characters EXCEPT ![c] =
             [account |-> a, slot |-> k, is_deleted |-> FALSE]]
  BY CreateEffect DEF StoreInv
<1> HIDE DEF a
<1>2. /\ Made' = Made \cup {c}
      /\ \A d \in Made : characters'[d] = characters[d]
      /\ characters'[c] = [account |-> a, slot |-> k, is_deleted |-> FALSE]
  BY <1>1, CreateMade DEF StoreInv
<1>3. Roster' = Roster \cup {<<a, k, c>>}
  <2>1. Roster' = {<<characters'[d].account, characters'[d].slot, d>> :
                     d \in {e \in Made' : ~characters'[e].is_deleted}}
    BY DEF Roster
  <2>2. /\ characters'[c].account = a
        /\ characters'[c].slot = k
        /\ ~characters'[c].is_deleted
    BY <1>2
  <2> QED
    BY <1>1, <1>2, <2>1, <2>2 DEF Roster
<1>4. \A e \in Roster : ~(e[1] = a /\ e[2] = k)
  BY <1>1 DEF Roster, SlotTaken
<1>5. UNCHANGED sessions
  BY DEF CreateCharacter
<1>6. \A s \in Sessions : Holder(s)' = Holder(s) /\ Playing(s)' = Playing(s)
  <2> TAKE s \in Sessions
  <2>1. CASE InPlay(s)
    <3>1. sessions[s].character \in Made
      BY <2>1, InPlayHasMade DEF StoreInv
    <3> QED
      BY <1>2, <1>5, <3>1 DEF Holder, Open, Playing, InPlay
  <2>2. CASE ~InPlay(s)
    BY <1>5, <2>2 DEF Holder, Open, Playing, InPlay
  <2> QED
    BY <2>1, <2>2
<1> QED
  BY <1>1, <1>2, <1>3, <1>4, <1>6 DEF Store!Create, Holder, Playing, Roster

LEMMA DeleteRefines ==
  ASSUME StoreInv, NEW r \in Requests, DeleteCharacter(r), ~UNCHANGED characters
  PROVE  \E a \in Accounts, c \in Characters : Store!Delete(a, c)
<1>1. PICK a \in Accounts, c \in Made :
        /\ c \in Living(a)
        /\ characters' = [characters EXCEPT ![c].is_deleted = TRUE]
  BY DeleteEffect DEF StoreInv
<1>2. UNCHANGED sessions
  BY DEF DeleteCharacter
<1>3. /\ Made' = Made
      /\ characters'[c].is_deleted
      /\ \A d \in Characters : /\ characters'[d].account = characters[d].account
                               /\ characters'[d].slot = characters[d].slot
                               /\ d # c => characters'[d] = characters[d]
  BY <1>1, DeleteMade DEF StoreInv
<1>4. Roster' = {e \in Roster : e[3] # c}
  <2>1. Roster' = {<<characters'[d].account, characters'[d].slot, d>> :
                     d \in {e \in Made' : ~characters'[e].is_deleted}}
    BY DEF Roster
  <2>2. {d \in Made' : ~characters'[d].is_deleted}
          = {d \in Made : ~characters[d].is_deleted} \ {c}
    BY <1>3 DEF Made
  <2>3. \A d \in Made : /\ characters'[d].account = characters[d].account
                        /\ characters'[d].slot = characters[d].slot
    BY <1>3 DEF Made
  <2>4. \A e \in Roster' : e \in Roster /\ e[3] # c
    BY <2>1, <2>2, <2>3 DEF Roster
  <2>5. \A e \in Roster : e[3] # c => e \in Roster'
    BY <2>1, <2>2, <2>3 DEF Roster
  <2> QED
    BY <2>4, <2>5
<1>5. \E k \in Slots : <<a, k, c>> \in Roster
  <2>1. characters[c].slot \in Slots /\ characters[c].account = a
    BY <1>1 DEF StoreInv, TypeOK, CharacterRow, Made, Living
  <2>2. <<a, characters[c].slot, c>> \in Roster
    BY <1>1, <2>1 DEF Roster, Living
  <2> QED
    BY <2>1, <2>2
<1>6. \A s \in Sessions : /\ Holder(s)' = Holder(s)
                          /\ Playing(s)' = IF Playing(s) = c THEN NoCharacter
                                           ELSE Playing(s)
  <2> TAKE s \in Sessions
  <2>1. CASE InPlay(s)
    <3>1. sessions[s].character \in Characters
      BY <2>1, InPlayHasMade DEF StoreInv, Made
    <3> QED
      BY <1>2, <1>3, <2>1, <3>1 DEF Holder, Open, Playing, InPlay
  <2>2. CASE ~InPlay(s)
    BY <1>2, <2>2 DEF Holder, Open, Playing, InPlay
  <2> QED
    BY <2>1, <2>2
<1>7. c \in Characters
  BY <1>1 DEF Made
<1>8. Store!Delete(a, c)
  BY <1>3, <1>4, <1>5, <1>6 DEF Store!Delete, Holder, Playing, Roster
<1> QED
  BY <1>1, <1>7, <1>8

\* The second statement of a deletion changes nothing that is still seen.
LEMMA ClearRefines ==
  ASSUME StoreInv, NEW r \in Requests, ClearBindings(r)
  PROVE  UNCHANGED Store!vars
<1> DEFINE c == requests[r].character
<1>1. characters[c].is_deleted
  BY SenderKnown DEF StoreInv, ClearBindings, Sends, RequestOK
<1>2. UNCHANGED characters
  BY DEF ClearBindings
<1>3. \A s \in Sessions :
        \/ sessions'[s] = sessions[s]
        \/ /\ sessions'[s] = [sessions[s] EXCEPT !.character = NoCharacter]
           /\ sessions[s].character = c
  BY DEF ClearBindings
<1> HIDE DEF c
<1>4. ASSUME NEW s \in Sessions
      PROVE  Holder(s)' = Holder(s) /\ Playing(s)' = Playing(s)
  <2>1. CASE sessions'[s] = sessions[s]
    BY <1>2, <2>1 DEF Holder, Open, Playing, InPlay
  <2>2. CASE sessions'[s] # sessions[s]
    <3>1. sessions[s] \in SessionRow
      BY DEF StoreInv, TypeOK
    <3>2. /\ sessions'[s].state = sessions[s].state
          /\ sessions'[s].account = sessions[s].account
          /\ sessions'[s].character = NoCharacter
          /\ sessions[s].character = c
      BY <1>3, <2>2, <3>1 DEF SessionRow
    <3> QED
      BY <1>1, <3>2 DEF Holder, Open, Playing, InPlay
  <2> QED
    BY <2>1, <2>2
<1> QED
  BY <1>2, <1>4, RosterKept, StutterForm

\* A selection takes effect if the session is still open for the account, and
\* plays the character if it still lives.
LEMMA BindRefines ==
  ASSUME StoreInv, NEW r \in Requests, BindSession(r)
  PROVE  \/ UNCHANGED Store!vars
         \/ \E s \in Sessions, c \in Characters : Store!Select(s, c)
         \/ \E s \in Sessions : Store!Deselect(s)
<1>1. PICK u \in Sessions, c \in Made, a \in Accounts :
        /\ u = requests[r].session
        /\ c = requests[r].character
        /\ a = requests[r].account
        /\ characters[c].account = a
  BY BindKnows DEF StoreInv
<1>2. UNCHANGED characters
  BY DEF BindSession
<1>3. \A s \in Sessions \ {u} : sessions'[s] = sessions[s]
  BY <1>1, BindEffect DEF StoreInv
<1>4. \/ sessions'[u] = sessions[u]
      \/ /\ sessions[u].account = a
         /\ Open(u)
         /\ sessions'[u].account = a
         /\ sessions'[u].character = c
         /\ sessions'[u].state = "character_selected"
  BY <1>1, BindEffect DEF StoreInv
<1>5. CASE sessions'[u] = sessions[u]
  <2>1. \A s \in Sessions : Holder(s)' = Holder(s) /\ Playing(s)' = Playing(s)
    BY <1>2, <1>3, <1>5 DEF Holder, Open, Playing, InPlay
  <2> QED
    BY <1>2, <2>1, RosterKept, StutterForm
<1>6. CASE sessions'[u] # sessions[u]
  <2>1. \A s \in Sessions : Holder(s)' = Holder(s)
    BY <1>3, <1>4, <1>6 DEF Holder, Open
  <2>2. \A s \in Sessions \ {u} : Playing(s)' = Playing(s)
    BY <1>2, <1>3 DEF Playing, InPlay
  <2>3. c \in Characters /\ c # NoCharacter
    BY <1>1, AuthConstants DEF Made
  <2>4. Playing(u)' = IF characters[c].is_deleted THEN NoCharacter ELSE c
    BY <1>2, <1>4, <1>6, <2>3 DEF Playing, InPlay
  <2>5. CASE characters[c].is_deleted
    <3>1. \A s \in Sessions : Playing(s)' = IF s = u THEN NoCharacter ELSE Playing(s)
      BY <2>2, <2>4, <2>5
    <3>2. Store!Deselect(u)
      BY <1>1, <1>2, <2>1, <3>1, RosterKept DEF Store!Deselect, Holder, Playing, Roster
    <3> QED
      BY <1>1, <3>2
  <2>6. CASE ~characters[c].is_deleted
    <3>1. \A s \in Sessions : Playing(s)' = IF s = u THEN c ELSE Playing(s)
      BY <2>2, <2>4, <2>6
    <3>2. Holder(u) = a
      BY <1>4, <1>6 DEF Holder
    <3>3. characters[c].slot \in Slots
      BY <2>3 DEF StoreInv, TypeOK, CharacterRow
    <3>4. <<Holder(u), characters[c].slot, c>> \in Roster
      BY <1>1, <2>6, <3>2 DEF Roster
    <3>5. Store!Select(u, c)
      BY <1>1, <1>2, <2>1, <3>1, <3>3, <3>4, RosterKept
         DEF Store!Select, Holder, Playing, Roster
    <3> QED
      BY <1>1, <2>3, <3>5
  <2> QED
    BY <2>5, <2>6
<1> QED
  BY <1>5, <1>6

LEMMA StepRefines ==
  ASSUME StoreInv, [Next]_vars
  PROVE  [Store!Next]_(Store!vars)
<1> USE DEF StoreInv
<1>1. CASE UNCHANGED db
  <2>1. \A s \in Sessions : Holder(s)' = Holder(s) /\ Playing(s)' = Playing(s)
    BY <1>1 DEF db, Holder, Open, Playing, InPlay
  <2> QED
    BY <1>1, <2>1, RosterKept, StutterForm DEF db
<1>2. ASSUME NEW r \in Requests, UpsertSession(r)
      PROVE  Store!Next
  BY <1>2, UpsertRefines DEF Store!Next
<1>3. ASSUME NEW r \in Requests, CloseSession(r)
      PROVE  Store!Next
  BY <1>3, CloseRefines DEF Store!Next
<1>4. ASSUME NEW r \in Requests, CreateCharacter(r), ~UNCHANGED characters
      PROVE  Store!Next
  BY <1>4, CreateRefines DEF Store!Next
<1>5. ASSUME NEW r \in Requests, DeleteCharacter(r), ~UNCHANGED characters
      PROVE  Store!Next
  BY <1>5, DeleteRefines DEF Store!Next
<1>6. ASSUME NEW r \in Requests, CreateCharacter(r) \/ DeleteCharacter(r)
      PROVE  UNCHANGED characters => UNCHANGED db
  BY <1>6 DEF CreateCharacter, DeleteCharacter, db
<1>7. ASSUME NEW r \in Requests, BindSession(r)
      PROVE  [Store!Next]_(Store!vars)
  BY <1>7, BindRefines DEF Store!Next
<1>8. ASSUME NEW due \in SUBSET Sessions, Sweep(due)
      PROVE  Store!Next
  BY <1>8, SweepRefines DEF Store!Next
<1> QED
  BY <1>1, <1>2, <1>3, <1>4, <1>5, <1>6, <1>7, <1>8, ClearRefines, DbSteps DEF Write

-----------------------------------------------------------------------------
\* The theorems.

\* A step of any request, or of the sweep, keeps the invariant.
LEMMA StoreInvStep ==
  ASSUME StoreInv, [Next]_vars
  PROVE  StoreInv'
<1>1. TypeOK'
  BY TypeStep DEF StoreInv
<1>2. Keeps
  BY KeepsStep DEF StoreInv
<1> QED
  BY <1>1, <1>2, SessionsStep, RequestsStep, OwnStep, SlotsStep, DeadStep DEF StoreInv

\* What the requests know and what the rows say always agrees.
THEOREM StoreInvariant == Spec => []StoreInv
<1>1. Init => StoreInv
  BY AuthConstants DEF Init, StoreInv, TypeOK, SessionsOK, RequestsOK, SelectedIsOwn,
     SlotsUsedOnce, DeadBindingExplained, InPlay, Made, SessionRow, NoSessionRow,
     CharacterRow, NoCharacterRow
<1>2. StoreInv /\ [Next]_vars => StoreInv'
  BY StoreInvStep
<1> QED
  BY <1>1, <1>2, PTL DEF Spec

\* Every row and every request keeps its type; in particular a creation never
\* picks a slot an account does not have (create_character).
THEOREM StoreTypes == Spec => []TypeOK
BY StoreInvariant, PTL DEF StoreInv

\* A session in play has a character of its own account, whichever logins and
\* selections for the same session id overlap, fail or run late
\* (bind_session_character).
THEOREM SelectionIsOwn == Spec => []SelectedIsOwn
BY StoreInvariant, PTL DEF StoreInv

\* A deleted character is still played only for the reasons the code leaves
\* (delete_character's second statement).
THEOREM DeadBindingsAreExplained == Spec => []DeadBindingExplained
BY StoreInvariant, PTL DEF StoreInv

\* Concurrent creations never share a slot (create_character).
THEOREM SlotsNeverShared == Spec => []SlotsUsedOnce
BY StoreInvariant, PTL DEF StoreInv

\* The requests, interleaved, failing half way and late, implement the atomic
\* operations of SessionStore.
THEOREM ImplementsSessionStore == Spec => ImplementsStore
<1>1. Init => Store!Init
  BY AuthConstants DEF Init, Store!Init, Open, InPlay, Made, NoSessionRow, NoCharacterRow
<1>2. StoreInv /\ [Next]_vars => [Store!Next]_(Store!vars)
  BY StepRefines
<1> QED
  BY <1>1, <1>2, StoreInvariant, PTL DEF Spec, ImplementsStore, Store!Spec

=============================================================================
