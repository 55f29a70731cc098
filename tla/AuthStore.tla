------------------------------- MODULE AuthStore -------------------------------
(***************************************************************************)
(* The auth-service (apps/auth-service, crates/auth), the account          *)
(* repository it uses (crates/infrastructure) and the sweep of the         *)
(* jobs-runner, over one database.                                         *)
(*                                                                         *)
(* Each HTTP request is a task that sends SQL statements one after the     *)
(* other.  A statement is atomic; requests interleave between statements.  *)
(* A statement may fail, and a request may be dropped at any await, by the *)
(* timeout of three seconds or because its client goes away; a statement   *)
(* the database has already received may then still run, at any later time.*)
(***************************************************************************)
EXTENDS Naturals, FiniteSets, FiniteSetsExt

CONSTANTS
  Sessions, Accounts, Characters,  \* the ids of the rows
  Slots,        \* slots of an account (0..3)
  Requests,     \* requests that may be under way at the same time
  NoAccount, NoCharacter

ASSUME AuthConstants ==
  /\ Slots \subseteq Nat
  /\ 0 \in Slots
  /\ NoAccount \notin Accounts
  /\ NoCharacter \notin Characters

VARIABLES
  sessions,    \* table sessions
  characters,  \* table characters
  requests,    \* what each request is doing
  dangling     \* history: characters a session may be left bound to when deleted

db   == <<sessions, characters>>
vars == <<db, requests, dangling>>

-----------------------------------------------------------------------------
\* Rows.  closed_at is set exactly when state is "closed": every statement that
\* writes one writes the other.
SessionRow ==
  [account : Accounts \cup {NoAccount}, character : Characters \cup {NoCharacter},
   state : {"none", "authenticated", "character_selected", "closed"}]

NoSessionRow == [account |-> NoAccount, character |-> NoCharacter, state |-> "none"]

CharacterRow ==
  [account : Accounts \cup {NoAccount}, slot : Slots, is_deleted : BOOLEAN]

NoCharacterRow == [account |-> NoAccount, slot |-> 0, is_deleted |-> FALSE]

Made == {c \in Characters : characters[c].account # NoAccount}

Living(a) == {c \in Characters : characters[c].account = a /\ ~characters[c].is_deleted}

Open(s) == sessions[s].state \notin {"none", "closed"}

\* Requests: the statement a request sends next, and its parameters.  An
\* abandoned request has no task any more, only that statement.
Statements == {"find", "upsert", "close", "account", "list", "create", "delete",
               "clear", "load", "bind"}

Ops == {"login", "logout", "list", "create", "delete", "load"}

Request ==
  [op : Ops, next : Statements, session : Sessions,
   account : Accounts \cup {NoAccount}, character : Characters \cup {NoCharacter},
   abandoned : BOOLEAN]

Idle == [op |-> "none"]

Sends(r, statement) == requests[r] # Idle /\ requests[r].next = statement

Finish(r) == requests' = [requests EXCEPT ![r] = Idle]

\* The task goes on to its next statement, if there still is a task.
Proceed(r, statement) ==
  IF requests[r].abandoned THEN Finish(r)
  ELSE requests' = [requests EXCEPT ![r].next = statement]

-----------------------------------------------------------------------------
\* The HTTP handlers, up to their first statement.

Receive(r, op, first, s, a, c) ==
  /\ requests[r] = Idle
  /\ requests' = [requests EXCEPT ![r] =
       [op |-> op, next |-> first, session |-> s, account |-> a, character |-> c,
        abandoned |-> FALSE]]

\* The limiter of the addresses may refuse a login (is_rate_limited): it is then
\* not received at all.
Login(r, s, a) ==
  /\ Receive(r, "login", "find", s, a, NoCharacter)
  /\ UNCHANGED <<db, dangling>>

Logout(r, s) ==
  /\ Receive(r, "logout", "close", s, NoAccount, NoCharacter)
  /\ UNCHANGED <<db, dangling>>

\* The character operations first look up the account of their session.  The
\* id of a new character is chosen by the database.
CharacterOp(r, op, s, c) ==
  /\ op \in {"list", "create", "delete"}
  /\ IF op = "delete" THEN c \in Made ELSE c = NoCharacter
  /\ Receive(r, op, "account", s, NoAccount, c)
  /\ UNCHANGED <<db, dangling>>

SelectCharacter(r, s, c) ==
  /\ c \in Made
  /\ Receive(r, "load", "account", s, NoAccount, c)
  /\ UNCHANGED <<db, dangling>>

-----------------------------------------------------------------------------
\* Statements that only read.

\* validate_credentials: an account that exists and is active, and its password,
\* or the login is rejected.  The status is read here and never again: blocking
\* an account ends none of its sessions.
FindAccount(r, valid) ==
  /\ Sends(r, "find")
  /\ IF valid THEN Proceed(r, "upsert") ELSE Finish(r)
  /\ UNCHANGED <<db, dangling>>

\* get_session_account: any session that is not closed, expired or not.
SessionAccount(r) ==
  LET s == requests[r].session IN
    /\ Sends(r, "account")
    /\ IF Open(s)
       THEN requests' = [requests EXCEPT ![r].next = requests[r].op,
                                         ![r].account = sessions[s].account]
       ELSE Finish(r)
    /\ UNCHANGED <<db, dangling>>

ListCharacters(r) ==
  /\ Sends(r, "list")
  /\ Finish(r)
  /\ UNCHANGED <<db, dangling>>

\* bind_session_character, first half: the character is alive and owned by the
\* account of the session.
LoadCharacter(r) ==
  /\ Sends(r, "load")
  /\ IF requests[r].character \in Living(requests[r].account)
     THEN Proceed(r, "bind") ELSE Finish(r)
  /\ UNCHANGED <<db, dangling>>

-----------------------------------------------------------------------------
\* Statements that write.

\* Mutant of UpsertSession: the state of an existing row is left alone.
UpsertSessionKeeping(r) ==
  LET s == requests[r].session IN
    /\ Sends(r, "upsert")
    /\ sessions' = [sessions EXCEPT
         ![s].account = requests[r].account,
         ![s].state = IF @ = "character_selected" THEN @ ELSE "authenticated"]
    /\ Finish(r)
    /\ UNCHANGED <<characters, dangling>>

\* INSERT ... ON CONFLICT (id) DO UPDATE: a login with the id of an existing
\* session takes it over, closed or not, and leaves its character_id.
UpsertSession(r) ==
  LET s == requests[r].session IN
    /\ Sends(r, "upsert")
    /\ sessions' = [sessions EXCEPT
         ![s].account = requests[r].account, ![s].state = "authenticated"]
    /\ Finish(r)
    /\ UNCHANGED <<characters, dangling>>

CloseSession(r) ==
  LET s == requests[r].session IN
    /\ Sends(r, "close")
    /\ sessions' = [sessions EXCEPT
         ![s].state = IF @ = "none" THEN "none" ELSE "closed"]
    /\ Finish(r)
    /\ UNCHANGED <<characters, dangling>>

\* The first slot without a living character.
FreeSlots(a) == Slots \ {characters[c].slot : c \in Living(a)}

\* UNIQUE (account_id, slot), which deleted characters count for as well.
SlotTaken(a, k) == \E c \in Made : characters[c].account = a /\ characters[c].slot = k

\* Mutant of CreateCharacter: the constraint of the table is missing, and a
\* request inserts into the slot it saw free.
CreateCharacterUnchecked(r) ==
  LET a == requests[r].account IN
    /\ Sends(r, "create")
    /\ \E c \in Characters \ Made, k \in Slots :
         characters' = [characters EXCEPT ![c] = [account |-> a, slot |-> k,
                                                  is_deleted |-> FALSE]]
    /\ Finish(r)
    /\ UNCHANGED <<sessions, dangling>>

\* Mutant of CreateCharacter: characters are counted instead of slots searched.
CreateCharacterAppended(r) ==
  LET a == requests[r].account
      k == Cardinality({c \in Made : characters[c].account = a})
  IN /\ Sends(r, "create")
     /\ \E c \in Characters \ Made :
          characters' = [characters EXCEPT ![c] = [account |-> a, slot |-> k,
                                                   is_deleted |-> FALSE]]
     /\ Finish(r)
     /\ UNCHANGED <<sessions, dangling>>

\* The slot is picked and the row inserted by one statement; a violation of the
\* constraint, or no free slot, is an error that changes nothing.
CreateCharacter(r) ==
  LET a == requests[r].account
      k == Min(FreeSlots(a))
  IN /\ Sends(r, "create")
     /\ IF FreeSlots(a) = {} \/ SlotTaken(a, k) THEN UNCHANGED characters
        ELSE \E c \in Characters \ Made :
               characters' = [characters EXCEPT ![c] = [account |-> a, slot |-> k,
                                                        is_deleted |-> FALSE]]
     /\ Finish(r)
     /\ UNCHANGED <<sessions, dangling>>

DeleteCharacter(r) ==
  LET c == requests[r].character IN
    /\ Sends(r, "delete")
    /\ IF c \in Living(requests[r].account)
       THEN characters' = [characters EXCEPT ![c].is_deleted = TRUE] /\ Proceed(r, "clear")
       ELSE UNCHANGED characters /\ Finish(r)
    /\ dangling' = IF c \in Living(requests[r].account) /\ requests[r].abandoned
                   THEN dangling \cup {c} ELSE dangling
    /\ UNCHANGED <<sessions>>

\* Mutant of ClearBindings: only the session of the request lets go.
ClearBindingsOwn(r) ==
  LET q == requests[r] IN
    /\ Sends(r, "clear")
    /\ sessions' = [sessions EXCEPT ![q.session].character =
         IF @ = q.character THEN NoCharacter ELSE @]
    /\ Finish(r)
    /\ UNCHANGED <<characters, dangling>>

\* The sessions of the account let go of the deleted character.
ClearBindings(r) ==
  LET q == requests[r] IN
    /\ Sends(r, "clear")
    /\ sessions' = [s \in Sessions |->
         IF sessions[s].account = q.account /\ sessions[s].character = q.character
              /\ Open(s)
         THEN [sessions[s] EXCEPT !.character = NoCharacter] ELSE sessions[s]]
    /\ Finish(r)
    /\ UNCHANGED <<characters, dangling>>

\* Mutant of BindSession: the account of the session is not checked again.
BindSessionUnchecked(r) ==
  LET q == requests[r] IN
    /\ Sends(r, "bind")
    /\ sessions' = IF Open(q.session)
                   THEN [sessions EXCEPT ![q.session].character = q.character,
                                         ![q.session].state = "character_selected"]
                   ELSE sessions
    /\ dangling' = IF characters[q.character].is_deleted
                   THEN dangling \cup {q.character} ELSE dangling
    /\ Finish(r)
    /\ UNCHANGED <<characters>>

\* Mutant of BindSession: a closed session is bound as well.
BindSessionReviving(r) ==
  LET q == requests[r] IN
    /\ Sends(r, "bind")
    /\ sessions' = IF sessions[q.session].account = q.account
                   THEN [sessions EXCEPT ![q.session].character = q.character,
                                         ![q.session].state = "character_selected"]
                   ELSE sessions
    /\ dangling' = IF characters[q.character].is_deleted
                   THEN dangling \cup {q.character} ELSE dangling
    /\ Finish(r)
    /\ UNCHANGED <<characters>>

\* bind_session_character, second half: whether the character is still alive is
\* not asked again.
BindSession(r) ==
  LET q == requests[r] IN
    /\ Sends(r, "bind")
    /\ sessions' = IF sessions[q.session].account = q.account /\ Open(q.session)
                   THEN [sessions EXCEPT ![q.session].character = q.character,
                                         ![q.session].state = "character_selected"]
                   ELSE sessions
    /\ dangling' = IF characters[q.character].is_deleted
                   THEN dangling \cup {q.character} ELSE dangling
    /\ Finish(r)
    /\ UNCHANGED <<characters>>

-----------------------------------------------------------------------------
\* Failures.

\* A failed statement, or a task dropped before it sent its statement.  Of a
\* delete whose second statement fails only the log would know.
Drop(r) ==
  /\ requests[r] # Idle
  /\ dangling' = IF Sends(r, "clear") THEN dangling \cup {requests[r].character}
                 ELSE dangling
  /\ Finish(r)
  /\ UNCHANGED <<db>>

\* The task is dropped, or gets an error, while the database has its statement.
Abandon(r) ==
  /\ requests[r] # Idle
  /\ ~requests[r].abandoned
  /\ requests[r].next \in {"upsert", "close", "create", "delete", "clear", "bind"}
  /\ requests' = [requests EXCEPT ![r].abandoned = TRUE]
  /\ UNCHANGED <<db, dangling>>

-----------------------------------------------------------------------------
\* The world around the requests.

\* run_tick of the jobs-runner closes the sessions that have run out.  Time is
\* not modelled: any open session may have run out.
Sweep(due) ==
  /\ due # {}
  /\ \A s \in due : Open(s)
  /\ sessions' = [s \in Sessions |->
       IF s \in due THEN [sessions[s] EXCEPT !.state = "closed"] ELSE sessions[s]]
  /\ UNCHANGED <<characters, requests, dangling>>

Init ==
  /\ sessions = [s \in Sessions |-> NoSessionRow]
  /\ characters = [c \in Characters |-> NoCharacterRow]
  /\ requests = [r \in Requests |-> Idle]
  /\ dangling = {}

Write(r) ==
  \/ UpsertSession(r) \/ CloseSession(r) \/ CreateCharacter(r)
  \/ DeleteCharacter(r) \/ ClearBindings(r) \/ BindSession(r)

Read(r) ==
  \/ \E valid \in BOOLEAN : FindAccount(r, valid)
  \/ SessionAccount(r) \/ ListCharacters(r) \/ LoadCharacter(r)

Arrive(r) ==
  \E s \in Sessions :
    \/ \E a \in Accounts : Login(r, s, a)
    \/ Logout(r, s)
    \/ \E op \in Ops, c \in Characters \cup {NoCharacter} : CharacterOp(r, op, s, c)
    \/ \E c \in Characters : SelectCharacter(r, s, c)

Next ==
  \/ \E r \in Requests : Arrive(r) \/ Read(r) \/ Write(r) \/ Drop(r) \/ Abandon(r)
  \/ \E due \in SUBSET Sessions : Sweep(due)

Spec == Init /\ [][Next]_vars

-----------------------------------------------------------------------------
\* Properties.

TypeOK ==
  /\ sessions \in [Sessions -> SessionRow]
  /\ characters \in [Characters -> CharacterRow]
  /\ requests \in [Requests -> Request \cup {Idle}]
  /\ dangling \subseteq Characters

\* Session s is in play: it is open, and has selected a character.
InPlay(s) ==
  sessions[s].state = "character_selected" /\ sessions[s].character # NoCharacter

\* A session that has selected a character has one of its own account, although
\* a login under the same session id may change the account between the look-up
\* of the session, the look-up of the character and the update.
SelectedIsOwn ==
  \A s \in Sessions : InPlay(s) =>
    characters[sessions[s].character].account = sessions[s].account

\* A session plays a deleted character only while the second statement of the
\* deletion is on its way, or when that statement was lost, or when the
\* selection looked the character up before it was deleted.
DeadBindingExplained ==
  \A s \in Sessions :
    InPlay(s) /\ characters[sessions[s].character].is_deleted =>
      \/ sessions[s].character \in dangling
      \/ \E r \in Requests : /\ Sends(r, "clear")
                            /\ requests[r].character = sessions[s].character

\* No two characters of an account ever have the same slot, the deleted ones
\* included: concurrent creations cannot share a slot, and a slot is used once.
SlotsUsedOnce ==
  \A c, d \in Made :
    characters[c].account = characters[d].account /\ characters[c].slot = characters[d].slot
      => c = d

\* Seen from outside, a binding counts while its character lives: requests that
\* fail half way, overlap or run late only ever perform the atomic operations
\* of SessionStore.
Store == INSTANCE SessionStore WITH
  holder  <- [s \in Sessions |-> IF Open(s) THEN sessions[s].account ELSE NoAccount],
  playing <- [s \in Sessions |->
                IF InPlay(s) /\ ~characters[sessions[s].character].is_deleted
                THEN sessions[s].character ELSE NoCharacter],
  roster  <- {<<characters[c].account, characters[c].slot, c>> :
                c \in {d \in Made : ~characters[d].is_deleted}},
  made    <- Made

ImplementsStore == Store!Spec

=============================================================================
