--------------------------- MODULE Erasure_proofs ---------------------------
(***************************************************************************)
(* Proofs about Erasure for any number of students, users and requests,    *)
(* and any faults.                                                         *)
(*                                                                         *)
(* What an actor or a retry record knows to be done stays done, because a  *)
(* user row that was used is never unused again, a scrubbed or deleted row *)
(* stays so, and no account comes back (Grows).  So the flags an actor     *)
(* carries from statement to statement are true when it acts on them       *)
(* (Knows), and a cleanup that is dropped or cleared was done.             *)
(***************************************************************************)
EXTENDS Erasure, TLAPS

Done(u) == row[u] \in {"scrubbed", "deleted"}

(* What a piece of work claims about its user. *)
Fact(w) ==
    w.user \in Users =>
        /\ row[w.user] # "unused"
        /\ w.local => Done(w.user)
        /\ w.idp => w.user \notin account

Known(a) ==
    /\ Fact(job[a])
    /\ \A w \in todo[a] : Fact(w) /\ (w.student = None => w.user \in due)
    /\ pc[a] \in {"scrub", "account", "record", "clear", "delete_row", "delete_account"} =>
          job[a].user \in Users
    /\ pc[a] \in {"scrub", "account", "record", "clear"} => job[a].user \in due
    /\ pc[a] \in {"anonymise", "delete_profile"} => job[a].student \in Students
    /\ pc[a] = "clear" => job[a].local /\ job[a].idp

Knows == \A a \in Actors : Known(a)

(* Whoever is linked, listed or due has, or had, a row. *)
UsedOnly ==
    /\ \A s \in Students : link[s] \in Users => row[link[s]] # "unused"
    /\ \A u \in due : row[u] # "unused"
    /\ listed \subseteq due

IInv == TypeOK /\ Knows /\ UsedOnly /\ FlagsTruthful /\ NothingForgotten

(* What no step undoes. *)
Grows ==
    \A u \in Users :
        /\ row[u] # "unused" => row'[u] # "unused"
        /\ Done(u) => Done(u)'
        /\ row[u] # "unused" /\ u \notin account => u \notin account'

(* Only a does anything. *)
Alone(a) ==
    \A b \in Actors \ {a} : pc'[b] = pc[b] /\ job'[b] = job[b] /\ todo'[b] = todo[b]

-----------------------------------------------------------------------------
(* Types *)

ActorType ==
    /\ pc' \in [Actors -> Steps]
    /\ job' \in [Actors -> Work]
    /\ todo' \in [Actors -> SUBSET Work]
    /\ expired' \subseteq Actors

LEMMA GotoType ==
    ASSUME TypeOK, NEW a \in Actors, NEW step \in Steps, Goto(a, step)
    PROVE  /\ pc' \in [Actors -> Steps] /\ pc'[a] = step
           /\ \A b \in Actors \ {a} : pc'[b] = pc[b]
  BY DEF TypeOK, Goto

LEMMA WorkTypes ==
    ASSUME TypeOK
    PROVE  /\ NoWork \in Work
           /\ \A s \in Students : WorkOn(s) \in Work /\ WorkOn(s).user = link[s]
                 /\ WorkOn(s).student = s /\ ~WorkOn(s).local /\ ~WorkOn(s).idp
           /\ \A u \in Users : RetryOf(u) \in Work /\ RetryOf(u).user = u
                 /\ RetryOf(u).local = (u \in localDone) /\ RetryOf(u).idp = (u \in idpDone)
  BY DEF TypeOK, Work, NoWork, WorkOn, RetryOf

LEMMA AfterType == \A a \in Actors : After(a) \in {"idle", "next"}
  BY DEF After

LEMMA FinishType ==
    ASSUME TypeOK, NEW a \in Actors, Finish(a), UNCHANGED todo
    PROVE  /\ ActorType /\ Alone(a)
           /\ pc'[a] \in {"idle", "next"} /\ job'[a] = NoWork
  <1>1. After(a) \in Steps
    BY AfterType DEF Steps
  <1>2. /\ pc' \in [Actors -> Steps] /\ pc'[a] = After(a)
        /\ \A b \in Actors \ {a} : pc'[b] = pc[b]
    BY <1>1, GotoType DEF Finish
  <1>3. /\ job' \in [Actors -> Work] /\ job'[a] = NoWork
        /\ \A b \in Actors \ {a} : job'[b] = job[b]
    BY WorkTypes DEF Finish, TypeOK
  <1> QED
    BY <1>2, <1>3, AfterType DEF Finish, TypeOK, ActorType, Alone

LEMMA SettleType ==
    ASSUME TypeOK, NEW a \in Actors, NEW b \in BOOLEAN, Settle(a, b), UNCHANGED todo
    PROVE  /\ ActorType /\ Alone(a)
           /\ pc'[a] = Settled(a, b)
           /\ Settled(a, b) \in {"idle", "next", "clear", "record"}
           /\ job'[a].user = job[a].user /\ job'[a].student = job[a].student
           /\ job'[a].local = job[a].local /\ job'[a].idp = b
  <1>1. Settled(a, b) \in {"idle", "next", "clear", "record"}
    BY AfterType DEF Settled
  <1>2. /\ pc' \in [Actors -> Steps] /\ pc'[a] = Settled(a, b)
        /\ \A c \in Actors \ {a} : pc'[c] = pc[c]
    BY <1>1, GotoType DEF Settle, Steps
  <1>3. /\ job' \in [Actors -> Work]
        /\ \A c \in Actors \ {a} : job'[c] = job[c]
        /\ job'[a].user = job[a].user /\ job'[a].student = job[a].student
        /\ job'[a].local = job[a].local /\ job'[a].idp = b
    BY DEF Settle, TypeOK, Work
  <1> QED
    BY <1>1, <1>2, <1>3 DEF Settle, TypeOK, ActorType, Alone

LEMMA InitType == Init => TypeOK
  BY FaultsAssumption DEF Init, TypeOK, Work, NoWork, Steps

(* Every step, by the actor that takes it. *)
Act(a) == Listed(a) \/ Clean(a) \/ Expire(a)

LEMMA TypeAct ==
    ASSUME TypeOK, Knows, NEW a \in Actors, Act(a)
    PROVE  TypeOK' /\ Alone(a)
  <1>1. CASE \E w \in todo[a] : Take(a, w)
    BY <1>1 DEF Take, TypeOK, Alone, tables, history, Goto, Steps
  <1>2. CASE EndRun(a)
    BY <1>2 DEF EndRun, TypeOK, Alone, tables, history, Goto, Steps
  <1>3. CASE Anonymise(a)
    <2>1. job[a].user \in Users \union {None} /\ job[a].student \in Students
      BY <1>3 DEF TypeOK, Work, Anonymise, Knows, Known
    <2>2. ActorType /\ Alone(a)
      <3>1. CASE job[a].user = None
        BY <1>3, <3>1, FinishType DEF Anonymise
      <3>2. CASE job[a].user # None
        BY <1>3, <3>2 DEF Anonymise, TypeOK, ActorType, Alone, Goto, Steps
      <3> QED BY <3>1, <3>2
    <2> QED
      BY <1>3, <2>1, <2>2 DEF Anonymise, TypeOK, ActorType
  <1>4. CASE AnonymiseFails(a) \/ ClearFails(a)
    BY <1>4, FinishType, FaultsAssumption
       DEF AnonymiseFails, ClearFails, StatementFails, Fault, TypeOK, ActorType, tables
  <1>5. CASE Scrub(a)
    <2>1. /\ job' \in [Actors -> Work]
          /\ \A b \in Actors \ {a} : job'[b] = job[b]
      <3>1. job \in [Actors -> Work] /\ job[a] \in Work
        BY DEF TypeOK
      <3>2. CASE UNCHANGED job
        BY <3>1, <3>2
      <3>3. CASE job' = [job EXCEPT ![a].local = TRUE]
        BY <3>1, <3>3 DEF Work
      <3> QED
        BY <1>5, <3>2, <3>3 DEF Scrub
    <2> QED
      BY <1>5, <2>1 DEF Scrub, TypeOK, Alone, Goto, Steps, history
  <1>6. CASE ScrubFails(a)
    BY <1>6, FaultsAssumption
       DEF ScrubFails, StatementFails, Fault, TypeOK, Alone, Goto, Steps, tables
  <1>7. CASE DeleteAccount(a)
    BY <1>7, SettleType DEF DeleteAccount, TypeOK, ActorType, history
  <1>8. CASE \E effect \in BOOLEAN : DeleteAccountFails(a, effect)
    BY <1>8, SettleType DEF DeleteAccountFails, TypeOK, ActorType, history
  <1>9. CASE Record(a)
    <2>1. job[a].user \in Users
      BY <1>9 DEF Record, Knows, Known
    <2> QED
      BY <1>9, <2>1, FinishType DEF Record, TypeOK, ActorType, history
  <1>10. CASE RecordFails(a)
    <2>1. ActorType /\ Alone(a)
      BY <1>10, FinishType DEF RecordFails
    <2>2. forgotten' \subseteq due' /\ due' \subseteq Users
      BY <1>10 DEF RecordFails, TypeOK, Knows, Known
    <2> QED
      BY <1>10, <2>1, <2>2, FaultsAssumption
         DEF RecordFails, StatementFails, Fault, TypeOK, ActorType, tables
  <1>11. CASE Clear(a)
    BY <1>11, FinishType DEF Clear, TypeOK, ActorType, history
  <1>12. CASE Expire(a)
    BY <1>12, FaultsAssumption DEF Expire, Fault, TypeOK, Alone, tables
  <1> QED
    BY <1>1, <1>2, <1>3, <1>4, <1>5, <1>6, <1>7, <1>8, <1>9, <1>10, <1>11, <1>12
       DEF Act, Listed, Clean

LEMMA TypeRemove ==
    ASSUME TypeOK, Knows, NEW r \in Requests, Remove(r)
    PROVE  TypeOK' /\ Alone(r)
  <1> r \in Actors
    BY DEF Actors
  <1>1. CASE DeleteProfile(r)
    <2>1. job[r].student \in Students
      BY <1>1 DEF DeleteProfile, Knows, Known
    <2>2. ActorType /\ Alone(r)
      <3>1. CASE job[r].user = None
        BY <1>1, <3>1, FinishType DEF DeleteProfile
      <3>2. CASE job[r].user # None
        BY <1>1, <3>2 DEF DeleteProfile, TypeOK, ActorType, Alone, Goto, Steps
      <3> QED BY <3>1, <3>2
    <2> QED
      BY <1>1, <2>1, <2>2 DEF DeleteProfile, TypeOK, ActorType, history
  <1>2. CASE DeleteRow(r)
    BY <1>2 DEF DeleteRow, TypeOK, Alone, Goto, Steps, history
  <1>3. CASE \E effect \in BOOLEAN : DropAccount(r, effect)
    BY <1>3, FinishType DEF DropAccount, TypeOK, ActorType, history
  <1>4. CASE DeleteFails(r)
    BY <1>4, FinishType, FaultsAssumption
       DEF DeleteFails, StatementFails, Fault, TypeOK, ActorType, tables
  <1> QED
    BY <1>1, <1>2, <1>3, <1>4 DEF Remove

LEMMA TypeBegin ==
    ASSUME TypeOK, NEW r \in Requests, Receive(r)
    PROVE  TypeOK' /\ Alone(r)
  <1> r \in Actors
    BY DEF Actors
  <1>1. PICK s \in Students : Begin(r, s, "anonymise") \/ Begin(r, s, "delete_profile")
    BY DEF Receive, Erase, Delete
  <1>2. WorkOn(s) \in Work
    BY WorkTypes
  <1> QED
    BY <1>1, <1>2 DEF Begin, TypeOK, Alone, Goto, Steps, tables, history

LEMMA TypeRun ==
    ASSUME TypeOK, NEW a \in Actors, NEW list \in SUBSET Work, Run(a, list)
    PROVE  TypeOK' /\ Alone(a)
  BY DEF Run, TypeOK, Alone, Goto, Steps, tables, history

LEMMA RetentionList ==
    ASSUME TypeOK, NEW S \in SUBSET Students
    PROVE  {WorkOn(s) : s \in S} \in SUBSET Work
  BY WorkTypes

LEMMA RetryList ==
    ASSUME TypeOK
    PROVE  {RetryOf(u) : u \in listed \ (localDone \intersect idpDone)} \in SUBSET Work
  BY WorkTypes DEF TypeOK

LEMMA TypeWorld ==
    ASSUME TypeOK, World
    PROVE  TypeOK' /\ UNCHANGED <<pc, job, todo>>
  BY DEF TypeOK, World, Activate, Update, history

LEMMA TypeStop ==
    ASSUME TypeOK, Stop PROVE TypeOK'
  <1>1. NoWork \in Work /\ "idle" \in Steps
    BY WorkTypes DEF Steps
  <1> QED
    BY <1>1, FaultsAssumption DEF TypeOK, Stop, Fault, tables

-----------------------------------------------------------------------------
(* What every step leaves alone. *)

LEMMA Grow ==
    ASSUME TypeOK, Knows, [Next]_vars
    PROVE  Grows
  <1>1. CASE World
    BY <1>1 DEF World, Activate, Update, TypeOK, Grows, Done
  <1>2. ASSUME NEW r \in Requests, Receive(r) \/ Remove(r) PROVE Grows
    <2> r \in Actors
      BY DEF Actors
    <2> USE DEF TypeOK, Grows, Done
    <2>1. CASE DeleteRow(r)
      BY <2>1 DEF DeleteRow
    <2>2. CASE ~DeleteRow(r)
      BY <1>2, <2>2 DEF Receive, Erase, Delete, Begin, Remove, DeleteProfile, DropAccount,
                        DeleteFails, tables
    <2> QED BY <2>1, <2>2
  <1>3. ASSUME NEW a \in Actors, Act(a) PROVE Grows
    <2> USE DEF TypeOK, Grows, Done
    <2>1. CASE Scrub(a)
      BY <2>1 DEF Scrub
    <2>2. CASE DeleteAccount(a) \/ \E effect \in BOOLEAN : DeleteAccountFails(a, effect)
      BY <2>2 DEF DeleteAccount, DeleteAccountFails
    <2>3. CASE UNCHANGED <<row, account>>
      BY <2>3
    <2>4. Scrub(a) \/ DeleteAccount(a) \/ (\E effect \in BOOLEAN : DeleteAccountFails(a, effect))
          \/ UNCHANGED <<row, account>>
      BY <1>3 DEF Act, Listed, Clean, Take, EndRun, Anonymise, AnonymiseFails, ScrubFails,
                  Record, RecordFails, Clear, ClearFails, Expire, tables
    <2> QED BY <2>1, <2>2, <2>3, <2>4
  <1>4. CASE UNCHANGED <<row, account>>
    BY <1>4 DEF TypeOK, Grows, Done
  <1> QED
    BY <1>1, <1>2, <1>3, <1>4 DEF Next, Act, RunRetention, RunRetry, Run, Stop, tables, vars

LEMMA FactStays ==
    ASSUME Grows, NEW w \in Work, Fact(w)
    PROVE  Fact(w)'
  BY DEF Grows, Fact, Done

(* Who does nothing still knows what it knew. *)
LEMMA OthersKnow ==
    ASSUME TypeOK, Knows, Grows, NEW b \in Actors, due \subseteq due',
           pc'[b] = pc[b], job'[b] = job[b], todo'[b] = todo[b]
    PROVE  Known(b)'
  <1>1. Known(b) /\ job[b] \in Work /\ todo[b] \in SUBSET Work
    BY DEF Knows, TypeOK
  <1>2. Fact(job[b])' /\ \A w \in todo[b] : Fact(w)'
    BY <1>1, FactStays DEF Known, Fact
  <1> QED
    BY <1>1, <1>2 DEF Known, Fact

-----------------------------------------------------------------------------
(* Knows, step by step: the actor that moves still knows only what is so. *)

(* A request or run that is through with one piece of work. *)
LEMMA FinishKnows ==
    ASSUME TypeOK, Knows, Grows, NEW a \in Actors, Finish(a), UNCHANGED todo,
           due \subseteq due'
    PROVE  Known(a)'
  <1>1. job'[a] = NoWork /\ pc'[a] \in {"idle", "next"} /\ todo'[a] = todo[a]
    BY FinishType
  <1>2. todo[a] \in SUBSET Work /\ Known(a)
    BY DEF TypeOK, Knows
  <1>3. Fact(job[a])'
    BY <1>1, NoneAssumption DEF Fact, NoWork
  <1>4. \A w \in todo[a] : Fact(w)' /\ (w.student = None => w.user \in due')
    BY <1>2, FactStays DEF Known
  <1> QED
    BY <1>1, <1>3, <1>4 DEF Known

(* One that goes on, with what it knows about its user. *)
LEMMA MoveKnows ==
    ASSUME TypeOK, Knows, Grows, NEW a \in Actors, UNCHANGED todo, due \subseteq due',
           Fact(job[a])',
           pc'[a] \in {"scrub", "account", "record", "clear", "delete_row", "delete_account"} =>
              job'[a].user \in Users,
           pc'[a] \in {"scrub", "account", "record", "clear"} => job'[a].user \in due',
           pc'[a] \in {"anonymise", "delete_profile"} => job'[a].student \in Students,
           pc'[a] = "clear" => job'[a].local /\ job'[a].idp
    PROVE  Known(a)'
  <1>1. todo[a] \in SUBSET Work /\ Known(a)
    BY DEF TypeOK, Knows
  <1>2. \A w \in todo[a] : Fact(w)' /\ (w.student = None => w.user \in due')
    BY <1>1, FactStays DEF Known
  <1> QED
    BY <1>2 DEF Known

LEMMA DueStays ==
    ASSUME Next PROVE due \subseteq due'
  BY DEF Next, World, Activate, Update, Receive, Erase, Delete, Begin, Remove, DeleteProfile,
         DeleteRow, DropAccount, DeleteFails, RunRetention, RunRetry, Run, Listed, Take, EndRun,
         Clean, Anonymise, AnonymiseFails, Scrub, ScrubFails, DeleteAccount,
         DeleteAccountFails, Record, RecordFails, Clear, ClearFails, Expire, Stop, history

LEMMA KnowsAct ==
    ASSUME TypeOK, Knows, UsedOnly, Grows, NEW a \in Actors, Act(a), due \subseteq due'
    PROVE  Known(a)'
  <1> DEFINE j == job[a]
  <1>0. /\ j \in Work /\ Known(a) /\ todo[a] \in SUBSET Work
        /\ job \in [Actors -> Work] /\ pc \in [Actors -> Steps]
        /\ todo \in [Actors -> SUBSET Work]
    BY DEF Knows, TypeOK
  <1>a. Fact(j) /\ (UNCHANGED job => Fact(job[a])')
    BY <1>0, FactStays DEF Known, Fact
  <1>1. ASSUME NEW w \in todo[a], Take(a, w) PROVE Known(a)'
    <2>1. w \in Work /\ Fact(w) /\ (w.student = None => w.user \in due) /\ due \subseteq Users
      BY <1>0 DEF Known, TypeOK
    <2>2. /\ job'[a] = w /\ todo'[a] = todo[a] \ {w}
          /\ pc'[a] = (IF w.student # None THEN "anonymise"
                       ELSE IF w.local THEN "account" ELSE "scrub")
      BY <1>0, <1>1 DEF Take, Goto
    <2>3. \A v \in todo'[a] : Fact(v)' /\ (v.student = None => v.user \in due')
      BY <1>0, <2>2, FactStays DEF Known
    <2>4. Fact(job[a])'
      BY <2>1, <2>2, FactStays DEF Fact
    <2>5. w.student \in Students \union {None}
      BY <2>1 DEF Work
    <2> QED
      BY <2>1, <2>2, <2>3, <2>4, <2>5 DEF Known
  <1>2. CASE EndRun(a)
    BY <1>0, <1>2, <1>a, MoveKnows DEF EndRun, Goto
  <1>3. CASE Anonymise(a)
    <2>1. CASE j.user = None
      BY <1>3, <2>1, FinishKnows DEF Anonymise
    <2>2. CASE j.user # None
      <3>1. j.user \in Users /\ UNCHANGED <<job, todo>> /\ pc'[a] = "scrub" /\ j.user \in due'
        BY <1>0, <1>3, <2>2 DEF Anonymise, Goto, Work
      <3> QED BY <3>1, <1>a, MoveKnows
    <2> QED BY <2>1, <2>2
  <1>4. CASE AnonymiseFails(a) \/ Record(a) \/ RecordFails(a) \/ Clear(a) \/ ClearFails(a)
    BY <1>4, FinishKnows DEF AnonymiseFails, Record, RecordFails, Clear, ClearFails
  <1>5. CASE Scrub(a)
    <2>1. j.user \in Users /\ j.user \in due /\ pc'[a] = "account" /\ UNCHANGED todo
      BY <1>0, <1>5 DEF Scrub, Known, Goto
    <2>2. /\ job'[a].user = j.user
          /\ row'[j.user] # "unused"
          /\ job'[a].local => row'[j.user] \in {"scrubbed", "deleted"}
          /\ job'[a].idp = j.idp
      <3>1. CASE row[j.user] = "deleted"
        BY <1>0, <1>5, <2>1, <3>1, <1>a DEF Scrub, Fact, TypeOK
      <3>2. CASE row[j.user] # "deleted"
        BY <1>0, <1>5, <2>1, <3>2 DEF Scrub, Work, TypeOK
      <3> QED BY <3>1, <3>2
    <2>3. j.idp => j.user \notin account'
      BY <1>5, <2>1, <1>a DEF Scrub, Fact
    <2>4. Fact(job[a])'
      BY <2>1, <2>2, <2>3 DEF Fact, Done
    <2> QED
      BY <2>1, <2>2, <2>4, MoveKnows
  <1>6. CASE ScrubFails(a)
    <2>1. j.user \in Users /\ j.user \in due /\ pc'[a] = "account" /\ UNCHANGED <<job, todo>>
      BY <1>0, <1>6 DEF ScrubFails, Known, Goto
    <2> QED
      BY <2>1, <1>a, MoveKnows
  <1>7. ASSUME NEW b \in BOOLEAN, Settle(a, b), UNCHANGED todo, pc[a] = "account",
               b => j.user \notin account'
        PROVE  Known(a)'
    <2>1. j.user \in Users /\ j.user \in due
      BY <1>0, <1>7 DEF Known
    <2>2. /\ job'[a].user = j.user /\ job'[a].local = j.local /\ job'[a].idp = b
          /\ pc'[a] = Settled(a, b)
          /\ Settled(a, b) \in {"idle", "next", "clear", "record"}
          /\ Settled(a, b) = "clear" => j.local /\ b
      BY <1>7, SettleType, AfterType DEF Settled
    <2>3. row'[j.user] # "unused" /\ (j.local => row'[j.user] \in {"scrubbed", "deleted"})
      BY <2>1, <1>a DEF Fact, Grows, Done
    <2>4. Fact(job[a])'
      BY <1>7, <2>1, <2>2, <2>3 DEF Fact, Done
    <2> QED
      BY <1>7, <2>1, <2>2, <2>4, MoveKnows
  <1>8. CASE DeleteAccount(a)
    <2>1. Settle(a, TRUE) /\ UNCHANGED todo /\ pc[a] = "account" /\ j.user \notin account'
      BY <1>0, <1>8, <1>a DEF DeleteAccount, Fact, Known
    <2> QED BY <2>1, <1>7
  <1>9. CASE \E effect \in BOOLEAN : DeleteAccountFails(a, effect)
    BY <1>7, <1>9 DEF DeleteAccountFails
  <1>10. CASE Expire(a)
    <2>1. UNCHANGED <<pc, job, todo>>
      BY <1>10 DEF Expire
    <2> QED
      BY <2>1, <1>0, <1>a, MoveKnows DEF Known
  <1> QED
    BY <1>1, <1>2, <1>3, <1>4, <1>5, <1>6, <1>8, <1>9, <1>10 DEF Act, Listed, Clean

LEMMA KnowsRemove ==
    ASSUME TypeOK, Knows, Grows, NEW r \in Requests, Remove(r), due \subseteq due'
    PROVE  Known(r)'
  <1> r \in Actors
    BY DEF Actors
  <1>0. job[r] \in Work /\ Known(r) /\ pc \in [Actors -> Steps]
    BY DEF Knows, TypeOK
  <1>a. UNCHANGED job => Fact(job[r])'
    BY <1>0, FactStays DEF Known, Fact
  <1>1. CASE Finish(r) /\ UNCHANGED todo
    BY <1>1, FinishKnows
  <1>2. CASE DeleteProfile(r) /\ job[r].user # None
    <2>1. UNCHANGED <<job, todo>> /\ pc'[r] = "delete_row" /\ job[r].user \in Users
      BY <1>0, <1>2 DEF DeleteProfile, Goto, Work
    <2> QED
      BY <2>1, <1>a, MoveKnows
  <1>3. CASE DeleteRow(r)
    <2>1. UNCHANGED <<job, todo>> /\ pc'[r] = "delete_account" /\ job[r].user \in Users
      BY <1>0, <1>3 DEF DeleteRow, Goto, Known
    <2> QED
      BY <2>1, <1>a, MoveKnows
  <1> QED
    BY <1>1, <1>2, <1>3 DEF Remove, DeleteProfile, DropAccount, DeleteFails

LEMMA KnowsBegin ==
    ASSUME TypeOK, Knows, UsedOnly, Grows, NEW r \in Requests, Receive(r)
    PROVE  Known(r)'
  <1> r \in Actors
    BY DEF Actors
  <1>1. PICK s \in Students : Begin(r, s, "anonymise") \/ Begin(r, s, "delete_profile")
    BY DEF Receive, Erase, Delete
  <1>2. /\ UNCHANGED <<tables, todo, due>> /\ job'[r] = WorkOn(s)
        /\ pc'[r] \in {"anonymise", "delete_profile"}
    BY <1>1 DEF Begin, Goto, TypeOK, history
  <1>3. Fact(job[r])' /\ job'[r].student = s
    BY <1>2, WorkTypes DEF Fact, UsedOnly, tables
  <1> QED
    BY <1>2, <1>3, MoveKnows

LEMMA KnowsRun ==
    ASSUME TypeOK, Knows, Grows, NEW a \in Actors, NEW list \in SUBSET Work, Run(a, list),
           \A w \in list : Fact(w) /\ (w.student = None => w.user \in due)
    PROVE  Known(a)'
  <1>1. /\ UNCHANGED <<job, due>> /\ pc'[a] = "next" /\ todo'[a] = list
        /\ job[a] \in Work /\ Fact(job[a])
    BY DEF Run, Goto, TypeOK, history, Knows, Known
  <1>2. Fact(job[a])' /\ \A w \in list : Fact(w)'
    BY <1>1, FactStays DEF Fact
  <1> QED
    BY <1>1, <1>2 DEF Known

LEMMA RetentionKnows ==
    ASSUME TypeOK, UsedOnly, NEW S \in SUBSET Students
    PROVE  \A w \in {WorkOn(s) : s \in S} : Fact(w) /\ (w.student = None => w.user \in due)
  BY WorkTypes, NoneAssumption DEF UsedOnly, Fact

LEMMA RetryKnows ==
    ASSUME TypeOK, UsedOnly, FlagsTruthful
    PROVE  \A w \in {RetryOf(u) : u \in listed \ (localDone \intersect idpDone)} :
               Fact(w) /\ (w.student = None => w.user \in due)
  <1> SUFFICES ASSUME NEW u \in listed
               PROVE  Fact(RetryOf(u)) /\ RetryOf(u).user \in due
    OBVIOUS
  <1>1. u \in Users /\ u \in due /\ row[u] # "unused"
    BY DEF TypeOK, UsedOnly
  <1>2. /\ RetryOf(u).user = u
        /\ RetryOf(u).local = (u \in localDone) /\ RetryOf(u).idp = (u \in idpDone)
    BY <1>1, WorkTypes
  <1> QED
    BY <1>1, <1>2 DEF FlagsTruthful, Fact, Done

LEMMA KnowsNext ==
    ASSUME TypeOK, Knows, UsedOnly, FlagsTruthful, Grows, Next
    PROVE  Knows'
  <1>0. due \subseteq due'
    BY DueStays
  <1>1. ASSUME NEW a \in Actors, Alone(a), Known(a)' PROVE Knows'
    BY <1>0, <1>1, OthersKnow DEF Alone, Knows
  <1>2. CASE World
    BY <1>0, <1>2, TypeWorld, OthersKnow DEF Knows
  <1>3. ASSUME NEW r \in Requests, Receive(r) PROVE Knows'
    BY <1>1, <1>3, TypeBegin, KnowsBegin DEF Actors
  <1>4. ASSUME NEW r \in Requests, Remove(r) PROVE Knows'
    BY <1>0, <1>1, <1>4, TypeRemove, KnowsRemove DEF Actors
  <1>5. ASSUME NEW S \in SUBSET Students, RunRetention(S) PROVE Knows'
    <2>1. Retention \in Actors /\ Run(Retention, {WorkOn(s) : s \in S})
      BY <1>5 DEF Actors, RunRetention
    <2> QED
      BY <1>1, <2>1, RetentionList, RetentionKnows, TypeRun, KnowsRun
  <1>6. CASE RunRetry
    <2>1. Retry \in Actors
      BY DEF Actors
    <2> QED
      BY <1>1, <1>6, <2>1, RetryList, RetryKnows, TypeRun, KnowsRun DEF RunRetry
  <1>7. ASSUME NEW a \in Actors, Act(a) PROVE Knows'
    BY <1>0, <1>1, <1>7, TypeAct, KnowsAct
  <1>8. CASE Stop
    <2>1. \A a \in Actors : pc'[a] = "idle" /\ job'[a] = NoWork /\ todo'[a] = {}
      BY <1>8 DEF Stop
    <2> QED
      BY <2>1, NoneAssumption DEF Knows, Known, Fact, NoWork
  <1> QED
    BY <1>2, <1>3, <1>4, <1>5, <1>6, <1>7, <1>8 DEF Next, Act

LEMMA TypeNext ==
    ASSUME TypeOK, Knows, Next PROVE TypeOK'
  <1>1. ASSUME NEW S \in SUBSET Students, RunRetention(S) PROVE TypeOK'
    BY <1>1, RetentionList, TypeRun DEF Actors, RunRetention
  <1>2. CASE RunRetry
    BY <1>2, RetryList, TypeRun DEF Actors, RunRetry
  <1> QED
    BY <1>1, <1>2, TypeWorld, TypeBegin, TypeRemove, TypeAct, TypeStop DEF Next, Act

-----------------------------------------------------------------------------
(* The tables *)

LEMMA UsedNext ==
    ASSUME TypeOK, Knows, UsedOnly, Grows, Next
    PROVE  UsedOnly'
  <1>0. \A u \in Users : row[u] # "unused" => row'[u] # "unused"
    BY DEF Grows
  <1>1. \A s \in Students : link'[s] \in Users => row'[link'[s]] # "unused"
    <2>1. CASE UNCHANGED link
      BY <1>0, <2>1 DEF UsedOnly
    <2>2. ASSUME NEW s \in Students, NEW u \in Users, Activate(s, u)
          PROVE  \A t \in Students : link'[t] \in Users => row'[link'[t]] # "unused"
      BY <1>0, <2>2 DEF Activate, UsedOnly, TypeOK
    <2> QED
      BY <2>1, <2>2 DEF Next, World, Update, Receive, Erase, Delete, Begin, Remove,
             DeleteProfile, DeleteRow, DropAccount, DeleteFails, RunRetention, RunRetry, Run,
             Listed, Take, EndRun, Clean, Anonymise, AnonymiseFails, Scrub, ScrubFails,
             DeleteAccount, DeleteAccountFails, Record, RecordFails, Clear, ClearFails,
             Expire, Stop, tables
  <1>2. \A u \in due' : row'[u] # "unused"
    <2>1. CASE due' = due
      BY <1>0, <2>1 DEF UsedOnly, TypeOK
    <2>2. ASSUME NEW a \in Actors, Anonymise(a), job[a].user # None
          PROVE  \A u \in due' : row'[u] # "unused"
      <3>1. job[a].user \in Users /\ row[job[a].user] # "unused" /\ due \subseteq Users
        BY <2>2 DEF TypeOK, Work, Knows, Known, Fact
      <3>2. due' = due \union {job[a].user}
        BY <2>2 DEF Anonymise
      <3> QED
        BY <1>0, <3>1, <3>2 DEF UsedOnly
    <2> QED
      BY <2>1, <2>2 DEF Next, World, Activate, Update, Receive, Erase, Delete, Begin, Remove,
             DeleteProfile, DeleteRow, DropAccount, DeleteFails, RunRetention, RunRetry, Run,
             Listed, Take, EndRun, Clean, Anonymise, AnonymiseFails, Scrub, ScrubFails,
             DeleteAccount, DeleteAccountFails, Record, RecordFails, Clear, ClearFails,
             Expire, Stop, history
  <1>3. listed' \subseteq due'
    <2>1. due \subseteq due'
      BY DueStays
    <2>2. CASE listed' \subseteq listed
      BY <2>1, <2>2 DEF UsedOnly
    <2>3. ASSUME NEW a \in Actors, Record(a) PROVE listed' \subseteq due'
      BY <2>1, <2>3 DEF Record, UsedOnly, Knows, Known
    <2> QED
      BY <2>2, <2>3 DEF Next, World, Activate, Update, Receive, Erase, Delete, Begin, Remove,
             DeleteProfile, DeleteRow, DropAccount, DeleteFails, RunRetention, RunRetry, Run,
             Listed, Take, EndRun, Clean, Anonymise, AnonymiseFails, Scrub, ScrubFails,
             DeleteAccount, DeleteAccountFails, RecordFails, Clear, ClearFails,
             Expire, Stop, tables
  <1> QED
    BY <1>1, <1>2, <1>3 DEF UsedOnly

LEMMA FlagsNext ==
    ASSUME TypeOK, Knows, UsedOnly, FlagsTruthful, Grows, Next
    PROVE  FlagsTruthful'
  <1>1. ASSUME NEW a \in Actors, Record(a) PROVE FlagsTruthful'
    <2>1. /\ job[a].user \in Users /\ Fact(job[a]) /\ UNCHANGED <<row, account>>
          /\ localDone' \subseteq localDone \union {u \in {job[a].user} : job[a].local}
          /\ idpDone' \subseteq idpDone \union {u \in {job[a].user} : job[a].idp}
      BY <1>1 DEF Record, Knows, Known
    <2> QED
      BY <2>1 DEF FlagsTruthful, Fact, Done
  <1>2. CASE localDone' \subseteq localDone /\ idpDone' \subseteq idpDone
    BY <1>2 DEF FlagsTruthful, Grows, TypeOK, UsedOnly, Done
  <1>3. ASSUME NEW a \in Actors, Clear(a) PROVE FlagsTruthful'
    <2>1. localDone' \subseteq localDone /\ idpDone' \subseteq idpDone
      BY <1>3 DEF Clear
    <2> QED BY <2>1, <1>2
  <1> QED
    BY <1>1, <1>2, <1>3 DEF Next, World, Activate, Update, Receive, Erase, Delete, Begin,
             Remove, DeleteProfile, DeleteRow, DropAccount, DeleteFails, RunRetention, RunRetry,
             Run, Listed, Take, EndRun, Clean, Anonymise, AnonymiseFails, Scrub, ScrubFails,
             DeleteAccount, DeleteAccountFails, RecordFails, ClearFails, Expire, Stop, tables

-----------------------------------------------------------------------------
(* Nothing is forgotten *)

LEMMA CleanedStays ==
    ASSUME TypeOK, UsedOnly, Grows, NEW u \in due, Cleaned(u)
    PROVE  Cleaned(u)'
  BY DEF TypeOK, UsedOnly, Grows, Cleaned, Done

(* A step of one actor that keeps, or hands over, what it holds. *)
LEMMA Kept ==
    ASSUME TypeOK, UsedOnly, NothingForgotten, Grows, NEW a \in Actors, Alone(a),
           listed \subseteq listed', due' = due, forgotten \subseteq forgotten',
           \A u \in Users : Holds(a, u) =>
               Holds(a, u)' \/ Cleaned(u)' \/ u \in listed' \/ u \in forgotten'
    PROVE  NothingForgotten'
  <1> SUFFICES ASSUME NEW u \in due, u \notin forgotten'
               PROVE  Cleaned(u)' \/ u \in listed' \/ \E b \in Actors : Holds(b, u)'
    BY DEF NothingForgotten
  <1>1. CASE Cleaned(u)
    BY <1>1, CleanedStays
  <1>2. CASE u \in listed
    BY <1>2
  <1>3. ASSUME NEW b \in Actors, Holds(b, u)
        PROVE  Cleaned(u)' \/ u \in listed' \/ \E c \in Actors : Holds(c, u)'
    <2>1. CASE b = a
      BY <1>3, <2>1 DEF TypeOK
    <2>2. CASE b # a
      BY <1>3, <2>2 DEF Alone, Holds
    <2> QED BY <2>1, <2>2
  <1> QED
    BY <1>1, <1>2, <1>3 DEF NothingForgotten

LEMMA ForgottenAct ==
    ASSUME TypeOK, Knows, UsedOnly, NothingForgotten, Grows, NEW a \in Actors, Act(a)
    PROVE  NothingForgotten'
  <1>0. /\ Alone(a) /\ pc \in [Actors -> Steps] /\ job \in [Actors -> Work]
        /\ Known(a) /\ job[a] \in Work
    BY TypeAct DEF TypeOK, Knows
  <1>1. CASE (\E w \in todo[a] : Take(a, w)) \/ EndRun(a)
    <2>1. /\ listed \subseteq listed' /\ due' = due /\ forgotten \subseteq forgotten'
          /\ \A u : ~Holds(a, u)
      BY <1>1 DEF Take, EndRun, Holds, tables, history
    <2> QED BY <2>1, <1>0, Kept
  <1>2. CASE Expire(a)
    <2>1. /\ listed \subseteq listed' /\ due' = due /\ forgotten \subseteq forgotten'
          /\ UNCHANGED <<pc, job>>
      BY <1>2 DEF Expire, tables
    <2> QED BY <2>1, <1>0, Kept DEF Holds
  <1>3. CASE AnonymiseFails(a) \/ ClearFails(a)
    <2>1. /\ listed \subseteq listed' /\ due' = due /\ forgotten \subseteq forgotten'
          /\ \A u : ~Holds(a, u)
      BY <1>3 DEF AnonymiseFails, ClearFails, Holds, tables
    <2> QED BY <2>1, <1>0, Kept
  <1>4. CASE Anonymise(a) /\ job[a].user = None
    <2>1. /\ listed \subseteq listed' /\ due' = due /\ forgotten \subseteq forgotten'
          /\ \A u : ~Holds(a, u)
      BY <1>4 DEF Anonymise, Holds
    <2> QED BY <2>1, <1>0, Kept
  <1>5. CASE Anonymise(a) /\ job[a].user # None
    <2>1. /\ listed' = listed /\ due' = due \union {job[a].user}
          /\ forgotten' = forgotten \ {job[a].user}
          /\ pc'[a] = "scrub" /\ job'[a] = job[a] /\ \A u : ~Holds(a, u)
      BY <1>0, <1>5 DEF Anonymise, Holds, Goto
    <2>2. Holds(a, job[a].user)'
      BY <2>1 DEF Holds
    <2> SUFFICES ASSUME NEW u \in due, u \notin forgotten, u # job[a].user
                 PROVE  Cleaned(u)' \/ u \in listed' \/ \E b \in Actors : Holds(b, u)'
      BY <2>1, <2>2 DEF NothingForgotten
    <2>3. ASSUME NEW b \in Actors, Holds(b, u) PROVE Holds(b, u)'
      BY <1>0, <2>1, <2>3 DEF Alone, Holds
    <2> QED
      BY <2>1, <2>3, CleanedStays DEF NothingForgotten
  <1>6. CASE Scrub(a) \/ ScrubFails(a)
    <2>1. /\ listed \subseteq listed' /\ due' = due /\ forgotten \subseteq forgotten'
          /\ pc'[a] = "account"
      BY <1>0, <1>6 DEF Scrub, ScrubFails, Goto, tables, history
    <2>2. job'[a].user = job[a].user
      BY <1>0, <1>6 DEF Scrub, ScrubFails, Work
    <2> QED BY <2>1, <2>2, <1>0, Kept DEF Holds
  <1>7. ASSUME NEW b \in BOOLEAN, Settle(a, b), UNCHANGED <<todo, listed, due, forgotten>>,
               pc[a] = "account", b => job[a].user \notin account'
        PROVE  NothingForgotten'
    <2>1. /\ pc'[a] = Settled(a, b) /\ job'[a].user = job[a].user
      BY <1>7, SettleType
    <2>2. ~(job[a].local /\ b) => pc'[a] = "record"
      BY <2>1 DEF Settled
    <2>3. ASSUME job[a].local, b PROVE Cleaned(job[a].user)'
      <3>1. job[a].user \in Users /\ Done(job[a].user)
        BY <1>0, <1>7, <2>3 DEF Known, Fact
      <3>2. Done(job[a].user)' /\ job[a].user \notin account'
        BY <1>7, <2>1, <2>3, <3>1 DEF Grows, Done
      <3> QED BY <2>1, <3>2 DEF Cleaned, Done
    <2> QED BY <1>7, <2>1, <2>2, <2>3, <1>0, Kept DEF Holds
  <1>8. CASE DeleteAccount(a)
    <2>1. job[a].user \notin account'
      BY <1>0, <1>8 DEF DeleteAccount, Known, Fact
    <2> QED BY <2>1, <1>7, <1>8 DEF DeleteAccount, history
  <1>9. CASE \E effect \in BOOLEAN : DeleteAccountFails(a, effect)
    BY <1>7, <1>9 DEF DeleteAccountFails, history
  <1>10. CASE Record(a)
    <2>1. /\ listed' = listed \union {job[a].user} /\ due' = due /\ forgotten' = forgotten
      BY <1>10 DEF Record, history
    <2> QED BY <2>1, <1>0, Kept DEF Holds
  <1>11. CASE RecordFails(a)
    <2>1. /\ listed' = listed /\ due' = due
          /\ forgotten' = forgotten \union ({job[a].user} \ listed)
      BY <1>11 DEF RecordFails, tables
    <2> QED BY <2>1, <1>0, Kept DEF Holds
  <1>12. CASE Clear(a)
    <2>1. /\ listed' = listed \ {job[a].user} /\ due' = due /\ forgotten' = forgotten
          /\ Cleaned(job[a].user) /\ job[a].user \in due /\ \A u : ~Holds(a, u)
      BY <1>0, <1>12 DEF Clear, history, Known, Fact, Cleaned, Done, Holds
    <2> SUFFICES ASSUME NEW u \in due, u \notin forgotten, u # job[a].user
                 PROVE  Cleaned(u)' \/ u \in listed' \/ \E b \in Actors : Holds(b, u)'
      BY <2>1, CleanedStays DEF NothingForgotten
    <2>2. ASSUME NEW b \in Actors, Holds(b, u) PROVE Holds(b, u)'
      BY <1>0, <2>1, <2>2 DEF Alone, Holds
    <2> QED
      BY <2>1, <2>2, CleanedStays DEF NothingForgotten
  <1> QED
    BY <1>1, <1>2, <1>3, <1>4, <1>5, <1>6, <1>8, <1>9, <1>10, <1>11, <1>12
       DEF Act, Listed, Clean

LEMMA ForgottenNext ==
    ASSUME TypeOK, Knows, UsedOnly, NothingForgotten, Grows, Next
    PROVE  NothingForgotten'
  <1>1. ASSUME NEW a \in Actors, Alone(a), UNCHANGED <<listed, due, forgotten>>,
               \A u : ~Holds(a, u)
        PROVE  NothingForgotten'
    BY <1>1, Kept
  <1>2. CASE World
    BY <1>2, CleanedStays DEF World, Activate, Update, NothingForgotten, Holds, history
  <1>3. ASSUME NEW r \in Requests, Receive(r) \/ Remove(r) PROVE NothingForgotten'
    <2>1. r \in Actors /\ Alone(r)
      BY <1>3, TypeBegin, TypeRemove DEF Actors
    <2>2. UNCHANGED <<listed, due, forgotten>> /\ \A u : ~Holds(r, u)
      BY <1>3 DEF Receive, Erase, Delete, Begin, Remove, DeleteProfile, DeleteRow, DropAccount,
                  DeleteFails, Holds, tables, history
    <2> QED BY <2>1, <2>2, <1>1
  <1>4. ASSUME NEW a \in Actors, NEW list \in SUBSET Work, Run(a, list)
        PROVE  NothingForgotten'
    <2>1. UNCHANGED <<listed, due, forgotten>> /\ \A u : ~Holds(a, u)
      BY <1>4 DEF Run, Holds, tables, history
    <2> QED BY <2>1, <1>1, <1>4, TypeRun
  <1>5. ASSUME NEW S \in SUBSET Students, RunRetention(S) PROVE NothingForgotten'
    BY <1>4, <1>5, RetentionList DEF Actors, RunRetention
  <1>6. CASE RunRetry
    BY <1>4, <1>6, RetryList DEF Actors, RunRetry
  <1>7. ASSUME NEW a \in Actors, Act(a) PROVE NothingForgotten'
    BY <1>7, ForgottenAct
  <1>8. CASE Stop
    BY <1>8, CleanedStays DEF Stop, NothingForgotten, tables
  <1> QED
    BY <1>2, <1>3, <1>5, <1>6, <1>7, <1>8 DEF Next, Act

-----------------------------------------------------------------------------
(* The invariant *)

LEMMA InitInv == Init => IInv
  BY InitType, NoneAssumption
     DEF Init, IInv, Knows, Known, Fact, NoWork, UsedOnly, FlagsTruthful, NothingForgotten

LEMMA StepInv == IInv /\ [Next]_vars => IInv'
  <1> SUFFICES ASSUME IInv, [Next]_vars PROVE IInv'
    OBVIOUS
  <1> USE DEF IInv
  <1>1. Grows
    BY Grow
  <1>2. CASE Next
    BY <1>1, <1>2, TypeNext, KnowsNext, UsedNext, FlagsNext, ForgottenNext
  <1>3. CASE UNCHANGED vars
    BY <1>3 DEF vars, TypeOK, Knows, Known, Fact, Done, UsedOnly, FlagsTruthful,
                NothingForgotten, Cleaned, Holds
  <1> QED BY <1>2, <1>3

LEMMA Invariance == Spec => []IInv
  BY InitInv, StepInv, PTL DEF Spec

(* Every variable of the erasure keeps its type. *)
THEOREM TypeCorrect == Spec => []TypeOK
  BY Invariance, PTL DEF IInv

(* A cleanup that is due is done, recorded or under way, unless a failure  *)
(* dropped it.                                                             *)
THEOREM Remembered == Spec => []NothingForgotten
  BY Invariance, PTL DEF IInv

(* The flags of a retry record are true. *)
THEOREM FlagsAreTrue == Spec => []FlagsTruthful
  BY Invariance, PTL DEF IInv

-----------------------------------------------------------------------------
(* The promise.  A cleanup is due as long as it is tracked and not done;   *)
(* an actor changes the status of the one user it works on, and only a     *)
(* failure loses one.                                                      *)

Tracked(u) == u \in listed \/ \E a \in Actors : Holds(a, u)

(* A context is done only after a deadline was missed. *)
Faulty == expired # {} => faults > 0

LEMMA FaultyNext ==
    ASSUME TypeOK, Faulty, [Next]_vars
    PROVE  Faulty' /\ faults' >= faults
  <1>0. faults \in Nat
    BY FaultsAssumption DEF TypeOK
  <1>1. faults' = faults \/ faults' = faults + 1
    BY <1>0 DEF Next, World, Activate, Update, Receive, Erase, Delete, Begin, Remove,
             DeleteProfile, DeleteRow, DropAccount, DeleteFails, RunRetention, RunRetry, Run,
             Listed, Take, EndRun, Clean, Anonymise, AnonymiseFails, Scrub, ScrubFails,
             DeleteAccount, DeleteAccountFails, Record, RecordFails, Clear, ClearFails,
             Expire, Stop, StatementFails, Fault, history, vars
  <1>2. expired' \subseteq expired \/ faults' = faults + 1
    BY DEF Next, World, Activate, Update, Receive, Erase, Delete, Begin, Remove,
             DeleteProfile, DeleteRow, DropAccount, DeleteFails, RunRetention, RunRetry, Run,
             Listed, Take, EndRun, Clean, Anonymise, AnonymiseFails, Scrub, ScrubFails,
             DeleteAccount, DeleteAccountFails, Record, RecordFails, Clear, ClearFails,
             Expire, Stop, Finish, Settle, Fault, vars
  <1> QED
    BY <1>0, <1>1, <1>2 DEF Faulty

LEMMA StatusOf ==
    ASSUME NEW u \in Users
    PROVE  Status(u) = IF u \notin due THEN "kept"
                       ELSE IF Cleaned(u) THEN "done"
                       ELSE IF Tracked(u) THEN "due" ELSE "lost"
  BY DEF Status, Tracked

LEMMA StatusSame ==
    ASSUME NEW u \in Users, u \in due' <=> u \in due, Cleaned(u)' <=> Cleaned(u),
           Tracked(u)' <=> Tracked(u)
    PROVE  Status(u)' = Status(u)
  BY StatusOf DEF Status, Tracked

(* How the status of one user may change. *)
Allowed(u) ==
    \/ Status(u)' = Status(u)
    \/ Status(u) \in {"kept", "lost"} /\ Status(u)' \in {"due", "done"} /\ faults' = faults
    \/ Status(u) \in {"due", "lost"} /\ Status(u)' = "done" /\ faults' = faults
    \/ Status(u) = "due" /\ Status(u)' = "lost" /\ faults' > 0

Frame(v) == \A u \in Users \ {v} : Status(u)' = Status(u)

LEMMA AllowedFrom ==
    ASSUME NEW u \in Users, due \subseteq due',
           u \in due /\ Cleaned(u) => Cleaned(u)',
           u \in due' \ due => Tracked(u)',
           u \in due /\ Tracked(u) => Cleaned(u)' \/ Tracked(u)' \/ faults' > 0,
           Status(u)' \in {Status(u), "lost"} \/ faults' = faults
    PROVE  Allowed(u)
  <1>1. Status(u) = IF u \notin due THEN "kept"
                    ELSE IF Cleaned(u) THEN "done"
                    ELSE IF Tracked(u) THEN "due" ELSE "lost"
    BY StatusOf
  <1>2. Status(u)' = IF u \notin due' THEN "kept"
                     ELSE IF Cleaned(u)' THEN "done"
                     ELSE IF Tracked(u)' THEN "due" ELSE "lost"
    BY DEF Status, Tracked
  <1> QED
    BY <1>1, <1>2 DEF Allowed

LEMMA PromiseOne ==
    ASSUME TypeOK, faults' >= faults, faults' \in Nat, NEW v \in Users \union {None}, Frame(v),
           v \in Users => Allowed(v)
    PROVE  [Promise!Next]_(Promise!vars)
  <1> DEFINE st == [u \in Users |-> Status(u)]
  <1>0. faults \in Nat /\ (faults' = faults \/ faults' > 0)
    BY FaultsAssumption DEF TypeOK
  <1>1. CASE st' = st
    <2>1. CASE (faults' > 0) = (faults > 0)
      BY <1>1, <2>1 DEF Promise!vars
    <2>2. CASE (faults' > 0) # (faults > 0)
      <3>1. Promise!Lose({})
        BY <1>0, <1>1, <2>2 DEF Promise!Lose
      <3> QED BY <3>1 DEF Promise!Next
    <2> QED BY <2>1, <2>2
  <1>2. CASE st' # st
    <2>1. v \in Users /\ Status(v)' # Status(v) /\ st' = [st EXCEPT ![v] = Status(v)']
      BY <1>2 DEF Frame
    <2>2. Allowed(v)
      BY <2>1
    <2>3. CASE faults' = faults /\ Status(v) \in {"kept", "lost"} /\ Status(v)' \in {"due", "done"}
      <3>1. Promise!Begin(v)
        BY <2>1, <2>3 DEF Promise!Begin
      <3> QED BY <2>1, <3>1 DEF Promise!Next
    <2>4. CASE faults' = faults /\ Status(v) \in {"due", "lost"} /\ Status(v)' = "done"
      <3>1. Promise!Finish(v)
        BY <2>1, <2>4 DEF Promise!Finish
      <3> QED BY <2>1, <3>1 DEF Promise!Next
    <2>5. CASE faults' > 0 /\ Status(v) = "due" /\ Status(v)' = "lost"
      <3>1. Promise!Lose({v})
        BY <2>1, <2>5 DEF Promise!Lose
      <3> QED BY <2>1, <3>1 DEF Promise!Next
    <2> QED
      BY <2>1, <2>2, <2>3, <2>4, <2>5 DEF Allowed
  <1> QED BY <1>1, <1>2

(* The step of an actor changes what there is of v at most. *)
LEMMA FrameOf ==
    ASSUME NEW a \in Actors, Alone(a), NEW v,
           \A u \in Users \ {v} :
               /\ row'[u] = row[u]
               /\ u \in account' <=> u \in account
               /\ u \in due' <=> u \in due
               /\ u \in listed' <=> u \in listed
               /\ Holds(a, u)' <=> Holds(a, u)
    PROVE  Frame(v)
  <1> SUFFICES ASSUME NEW u \in Users \ {v} PROVE Status(u)' = Status(u)
    BY DEF Frame
  <1>1. Cleaned(u)' <=> Cleaned(u)
    BY DEF Cleaned
  <1>2. \A b \in Actors : Holds(b, u)' <=> Holds(b, u)
    BY DEF Alone, Holds
  <1>3. Tracked(u)' <=> Tracked(u)
    BY <1>2 DEF Tracked
  <1> QED BY <1>1, <1>3, StatusSame

LEMMA OthersTrack ==
    ASSUME NEW a \in Actors, Alone(a), NEW u, Tracked(u), u \in listed => u \in listed',
           Holds(a, u) => Tracked(u)'
    PROVE  Tracked(u)'
  BY DEF Alone, Holds, Tracked

LEMMA PromiseAct ==
    ASSUME IInv, Faulty, NEW a \in Actors, Act(a), TypeOK', faults' >= faults
    PROVE  [Promise!Next]_(Promise!vars)
  <1>u. job[a].user \in Users \union {None}
    BY DEF IInv, TypeOK, Work
  <1>v. PICK v \in Users \union {None} : v = job[a].user
    BY <1>u
  <1>0. /\ v = job[a].user
        /\ Grows /\ Alone(a) /\ Known(a) /\ due \subseteq due'
        /\ faults' \in Nat /\ faults \in Nat
        /\ job \in [Actors -> Work] /\ pc \in [Actors -> Steps]
    <2>1. Next
      BY DEF Next, Act
    <2> QED
      BY <1>v, <2>1, Grow, TypeAct, DueStays, FaultsAssumption DEF IInv, TypeOK, Knows, Work
  <1>1. \A u \in due : Cleaned(u) => Cleaned(u)'
    BY <1>0, CleanedStays DEF IInv
  (* One that keeps hold of its user, or lists it, or loses it. *)
  <1>2. ASSUME Frame(v), due' = due,
               v \in Users => (v \in listed => v \in listed' \/ Cleaned(v)'),
               v \in Users => (Holds(a, v) =>
                   Tracked(v)' \/ Cleaned(v)' \/ faults' > 0),
               faults' = faults \/ (v \in Users => Status(v)' \in {Status(v), "lost"})
        PROVE  [Promise!Next]_(Promise!vars)
    <2>1. ASSUME v \in Users PROVE Allowed(v)
      <3>1. Tracked(v) => Cleaned(v)' \/ Tracked(v)' \/ faults' > 0
        BY <1>0, <1>2, <2>1, OthersTrack DEF Tracked
      <3> QED BY <1>1, <1>2, <2>1, <3>1, AllowedFrom
    <2> QED BY <1>0, <1>2, <2>1, PromiseOne DEF IInv
  (* One whose user is left as it is. *)
  <1>3. ASSUME UNCHANGED <<row, account, listed, due>>,
               \A u \in Users : Holds(a, u)' <=> Holds(a, u)
        PROVE  [Promise!Next]_(Promise!vars)
    <2>1. Frame(None)
      BY <1>0, <1>3, FrameOf
    <2> QED BY <1>0, <2>1, NoneAssumption, PromiseOne DEF IInv
  <1>4. ASSUME NEW w \in todo[a], Take(a, w) PROVE [Promise!Next]_(Promise!vars)
    <2>1. /\ w \in Work /\ UNCHANGED <<row, account, listed, due, faults>>
          /\ job'[a] = w /\ \A u : ~Holds(a, u)
      BY <1>0, <1>4 DEF Take, IInv, TypeOK, Holds, tables, history
    <2>2. w.user \in Users \union {None} /\ Frame(w.user)
      BY <1>0, <2>1, FrameOf DEF Holds, Work
    <2>3. ASSUME w.user \in Users PROVE Allowed(w.user)
      BY <1>0, <1>1, <2>1, <2>3, OthersTrack, AllowedFrom
    <2> QED BY <1>0, <2>2, <2>3, PromiseOne DEF IInv
  <1>5. CASE EndRun(a) \/ AnonymiseFails(a) \/ ClearFails(a)
    <2>1. /\ UNCHANGED <<row, account, listed, due>> /\ \A u : ~Holds(a, u)
          /\ \/ Finish(a) /\ UNCHANGED todo
             \/ pc'[a] = "idle"
      BY <1>0, <1>5 DEF EndRun, AnonymiseFails, ClearFails, Holds, tables, history, Goto
    <2>2. pc'[a] \in {"idle", "next"}
      BY <2>1, FinishType DEF IInv
    <2> QED BY <2>1, <2>2, <1>3 DEF Holds
  <1>6. CASE Expire(a)
    BY <1>3, <1>6 DEF Expire, Holds, tables
  <1>7. CASE ScrubFails(a)
    <2>1. UNCHANGED <<row, account, listed, due, job>> /\ pc[a] = "scrub" /\ pc'[a] = "account"
      BY <1>0, <1>7 DEF ScrubFails, Goto, tables
    <2> QED BY <2>1, <1>3 DEF Holds
  <1>8. CASE Scrub(a)
    <2>1. /\ UNCHANGED <<account, listed, due, faults>> /\ pc[a] = "scrub" /\ pc'[a] = "account"
          /\ job'[a].user = v /\ \A u \in Users \ {v} : row'[u] = row[u]
      BY <1>0, <1>8 DEF Scrub, Goto, history, Work, IInv, TypeOK
    <2>2. Frame(v)
      BY <1>0, <2>1, FrameOf DEF Holds
    <2> QED BY <2>1, <2>2, <1>2 DEF Holds, Tracked
  <1>9. ASSUME NEW b \in BOOLEAN, Settle(a, b), UNCHANGED <<todo, row, listed, due, faults>>,
               pc[a] = "account", account' \subseteq account, account \subseteq account' \union {v},
               b => v \notin account'
        PROVE  [Promise!Next]_(Promise!vars)
    <2>1. pc'[a] = Settled(a, b) /\ job'[a].user = v /\ v \in Users
      BY <1>0, <1>9, SettleType DEF IInv, Known
    <2>2. Frame(v)
      BY <1>0, <1>9, <2>1, FrameOf DEF Holds
    <2>3. ~(job[a].local /\ b) => pc'[a] = "record"
      BY <2>1 DEF Settled
    <2>4. job[a].local /\ b => Cleaned(v)'
      BY <1>0, <1>9, <2>1 DEF Known, Fact, Cleaned, Done
    <2> QED BY <1>9, <2>1, <2>2, <2>3, <2>4, <1>2 DEF Holds, Tracked
  <1>10. CASE DeleteAccount(a)
    <2>1. /\ Settle(a, TRUE) /\ UNCHANGED <<todo, row, listed, due, faults>> /\ pc[a] = "account"
          /\ account' \subseteq account /\ account \subseteq account' \union {v} /\ v \notin account'
      BY <1>0, <1>10 DEF DeleteAccount, Known, Fact, history
    <2> QED BY <2>1, <1>9
  <1>11. CASE \E effect \in BOOLEAN : DeleteAccountFails(a, effect)
    <2>1. /\ Settle(a, FALSE) /\ UNCHANGED <<todo, row, listed, due, faults>> /\ pc[a] = "account"
          /\ account' \subseteq account /\ account \subseteq account' \union {v}
      BY <1>v, <1>11 DEF DeleteAccountFails, history
    <2> QED BY <2>1, <1>9
  <1>12. ASSUME Finish(a), UNCHANGED <<todo, row, account, due>>, pc[a] \in {"record", "clear"},
                listed' \subseteq listed \union {v}, listed \subseteq listed' \union {v},
                v \in listed' \/ Cleaned(v) \/ faults' > 0,
                v \in listed => v \in listed' \/ Cleaned(v),
                faults' = faults \/ (v \in listed' <=> v \in listed)
         PROVE  [Promise!Next]_(Promise!vars)
    <2>1. pc'[a] \in {"idle", "next"} /\ v \in Users /\ v \in due
      BY <1>0, <1>12, FinishType DEF IInv, Known
    <2>2. Frame(v)
      BY <1>0, <1>12, <2>1, FrameOf DEF Holds
    <2>3. Cleaned(v) => Cleaned(v)'
      BY <1>1, <2>1
    <2>4. ASSUME v \in listed' <=> v \in listed PROVE Status(v)' \in {Status(v), "lost"}
      <3>1. Cleaned(v)' <=> Cleaned(v)
        BY <1>12 DEF Cleaned
      <3>2. Tracked(v)' => Tracked(v)
        BY <1>0, <2>1, <2>4 DEF Tracked, Alone, Holds
      <3> QED BY <1>12, <2>1, <3>1, <3>2, StatusOf DEF Status, Tracked
    <2>5. Holds(a, v) => Tracked(v)' \/ Cleaned(v)' \/ faults' > 0
      BY <1>12, <2>3 DEF Tracked
    <2> QED BY <1>2, <1>12, <2>1, <2>2, <2>3, <2>4, <2>5
  <1>13. CASE Record(a)
    BY <1>v, <1>12, <1>13 DEF Record, history
  <1>14. CASE RecordFails(a)
    <2>1. faults' > 0
      BY <1>0, <1>14 DEF RecordFails, StatementFails, Fault, Faulty
    <2> QED BY <2>1, <1>12, <1>14 DEF RecordFails, tables
  <1>15. CASE Clear(a)
    <2>1. Cleaned(v)
      BY <1>0, <1>15 DEF Clear, Known, Fact, Cleaned, Done
    <2> QED BY <1>v, <2>1, <1>12, <1>15 DEF Clear, history
  <1>16. CASE Anonymise(a) /\ v = None
    <2>1. UNCHANGED <<row, account, listed, due>> /\ pc'[a] \in {"idle", "next"} /\ \A u : ~Holds(a, u)
      BY <1>0, <1>16, FinishType DEF Anonymise, Holds, IInv
    <2> QED BY <2>1, <1>3 DEF Holds
  <1>17. CASE Anonymise(a) /\ v # None
    <2>1. /\ v \in Users /\ UNCHANGED <<row, account, listed, faults>> /\ due' = due \union {v}
          /\ pc'[a] = "scrub" /\ job'[a] = job[a] /\ \A u : ~Holds(a, u)
      BY <1>0, <1>17 DEF Anonymise, Holds, Goto
    <2>2. Frame(v)
      BY <1>0, <2>1, FrameOf DEF Holds
    <2>3. Allowed(v)
      BY <1>0, <1>1, <2>1, AllowedFrom DEF Tracked, Holds
    <2> QED BY <1>0, <2>1, <2>2, <2>3, PromiseOne DEF IInv
  <1> QED
    BY <1>4, <1>5, <1>6, <1>7, <1>8, <1>10, <1>11, <1>13, <1>14, <1>15, <1>16, <1>17
       DEF Act, Listed, Clean

(* A step that holds nothing and leaves the users alone. *)
LEMMA PromiseIdle ==
    ASSUME IInv, TypeOK', faults' >= faults, NEW a \in Actors, Alone(a),
           UNCHANGED <<listed, due>>, \A u : ~Holds(a, u) /\ ~Holds(a, u)',
           \A u \in due : row'[u] = row[u] /\ (u \in account' <=> u \in account)
    PROVE  [Promise!Next]_(Promise!vars)
  <1>1. ASSUME NEW u \in Users PROVE Status(u)' = Status(u)
    <2>1. CASE u \notin due
      BY <2>1 DEF Status
    <2>2. CASE u \in due
      <3>1. Cleaned(u)' <=> Cleaned(u)
        BY <2>2 DEF Cleaned
      <3>2. Tracked(u)' <=> Tracked(u)
        BY DEF Tracked, Alone, Holds
      <3> QED BY <3>1, <3>2, StatusSame
    <2> QED BY <2>1, <2>2
  <1>2. Frame(None) /\ None \notin Users
    BY <1>1, NoneAssumption DEF Frame
  <1> QED
    BY <1>2, PromiseOne, FaultsAssumption DEF IInv, TypeOK

(* An account or a row is deleted; nobody tracks less. *)
LEMMA PromiseShrink ==
    ASSUME IInv, TypeOK', Grows, faults' = faults, NEW r \in Actors, Alone(r),
           UNCHANGED <<listed, due>>, \A u : ~Holds(r, u) /\ ~Holds(r, u)',
           NEW v \in Users,
           \A u \in Users \ {v} : row'[u] = row[u] /\ (u \in account' <=> u \in account)
    PROVE  [Promise!Next]_(Promise!vars)
  <1>1. Frame(v)
    BY FrameOf
  <1>2. Tracked(v)' <=> Tracked(v)
    BY DEF Tracked, Alone, Holds
  <1>3. \A u \in due : Cleaned(u) => Cleaned(u)'
    BY CleanedStays DEF IInv
  <1>4. Allowed(v)
    BY <1>2, <1>3, AllowedFrom
  <1> QED
    BY <1>1, <1>4, PromiseOne, FaultsAssumption DEF IInv, TypeOK

LEMMA PromiseNext ==
    ASSUME IInv, Faulty, TypeOK', faults' >= faults, Next
    PROVE  [Promise!Next]_(Promise!vars)
  <1>0. Grows
    BY Grow DEF IInv
  <1>1. CASE World
    <2>1. /\ UNCHANGED <<pc, job, listed, due, faults>>
          /\ \A u \in due : row'[u] = row[u] /\ (u \in account' <=> u \in account)
      BY <1>1 DEF World, Activate, Update, history, IInv, TypeOK, UsedOnly
    <2>2. \A u \in Users : Status(u)' = Status(u)
      BY <2>1 DEF Status, Cleaned, Holds
    <2>3. Frame(None) /\ None \notin Users
      BY <2>2, NoneAssumption DEF Frame
    <2> QED
      BY <2>3, PromiseOne, FaultsAssumption DEF IInv, TypeOK
  <1>2. ASSUME NEW r \in Requests, Receive(r) PROVE [Promise!Next]_(Promise!vars)
    <2>1. r \in Actors /\ Alone(r)
      BY <1>2, TypeBegin DEF Actors, IInv
    <2>2. /\ UNCHANGED <<row, account, listed, due>> /\ \A u : ~Holds(r, u)
          /\ pc'[r] \in {"anonymise", "delete_profile"}
      BY <1>2, <2>1 DEF Receive, Erase, Delete, Begin, Holds, tables, history, Goto, IInv, TypeOK
    <2> QED
      BY <2>1, <2>2, PromiseIdle DEF Holds
  <1>3. ASSUME NEW r \in Requests, Remove(r) PROVE [Promise!Next]_(Promise!vars)
    <2>1. r \in Actors /\ Alone(r) /\ Known(r) /\ pc \in [Actors -> Steps]
      BY <1>3, TypeRemove DEF Actors, IInv, TypeOK, Knows
    <2>2. /\ UNCHANGED <<listed, due>> /\ \A u : ~Holds(r, u)
      BY <1>3 DEF Remove, DeleteProfile, DeleteRow, DropAccount, DeleteFails, Holds, tables,
                  history
    <2>3. pc'[r] \in {"idle", "next", "delete_row", "delete_account"}
      BY <1>3, <2>1, FinishType DEF Remove, DeleteProfile, DeleteRow, DropAccount, DeleteFails,
                  Goto, IInv, tables
    <2>4. CASE UNCHANGED <<row, account>>
      BY <2>1, <2>2, <2>3, <2>4, PromiseIdle DEF Holds
    <2>5. CASE DeleteRow(r) \/ \E effect \in BOOLEAN : DropAccount(r, effect)
      <3>1. PICK v \in Users : v = job[r].user
        BY <2>1, <2>5 DEF Known, DeleteRow, DropAccount
      <3>2. /\ faults' = faults
            /\ \A u \in Users \ {v} : row'[u] = row[u] /\ (u \in account' <=> u \in account)
        BY <2>5, <3>1 DEF DeleteRow, DropAccount, history, IInv, TypeOK
      <3> QED
        BY <1>0, <2>1, <2>2, <2>3, <3>2, PromiseShrink DEF Holds
    <2> QED
      BY <1>3, <2>4, <2>5 DEF Remove, DeleteProfile, DeleteFails, tables
  <1>4. ASSUME NEW a \in Actors, NEW list \in SUBSET Work, Run(a, list)
        PROVE  [Promise!Next]_(Promise!vars)
    <2>1. /\ Alone(a) /\ UNCHANGED <<row, account, listed, due>> /\ \A u : ~Holds(a, u)
          /\ pc'[a] = "next"
      BY <1>4, TypeRun DEF Run, Holds, tables, history, Goto, IInv, TypeOK
    <2> QED
      BY <2>1, PromiseIdle DEF Holds
  <1>5. ASSUME NEW S \in SUBSET Students, RunRetention(S) PROVE [Promise!Next]_(Promise!vars)
    BY <1>4, <1>5, RetentionList DEF Actors, RunRetention, IInv
  <1>6. CASE RunRetry
    BY <1>4, <1>6, RetryList DEF Actors, RunRetry, IInv
  <1>7. ASSUME NEW a \in Actors, Act(a) PROVE [Promise!Next]_(Promise!vars)
    BY <1>7, PromiseAct
  <1>8. CASE Stop
    <2>1. /\ UNCHANGED <<row, account, listed, due>> /\ faults' > 0
          /\ \A a \in Actors, u \in Users : ~Holds(a, u)'
      BY <1>8, FaultsAssumption DEF Stop, Fault, tables, Holds, IInv, TypeOK
    <2> DEFINE S == {u \in Users : Status(u) = "due" /\ u \notin listed}
    <2>2. \A u \in Users : Status(u)' = IF u \in S THEN "lost" ELSE Status(u)
      BY <2>1 DEF Status, Cleaned
    <2>3. Promise!Lose(S)
      BY <2>1, <2>2 DEF Promise!Lose
    <2> QED
      BY <2>3 DEF Promise!Next
  <1> QED
    BY <1>1, <1>2, <1>3, <1>5, <1>6, <1>7, <1>8 DEF Next, Act

LEMMA PromiseInit == Init => Promise!Init
  BY DEF Init, Promise!Init, Status

LEMMA PromiseStep ==
    ASSUME IInv, Faulty, [Next]_vars
    PROVE  [Promise!Next]_(Promise!vars)
  <1>1. TypeOK'
    BY StepInv DEF IInv
  <1>2. faults' >= faults
    BY FaultyNext DEF IInv
  <1>3. CASE Next
    BY <1>1, <1>2, <1>3, PromiseNext
  <1>4. CASE UNCHANGED vars
    BY <1>4 DEF vars, Promise!vars, Status, Cleaned, Holds
  <1> QED BY <1>3, <1>4

LEMMA FaultyInit == Init => Faulty
  BY DEF Init, Faulty

LEMMA FaultyStep == IInv /\ Faulty /\ [Next]_vars => Faulty'
  BY FaultyNext DEF IInv

(* The erasure keeps the promise, for any interleaving and any failures. *)
THEOREM ErasureKeepsPromise == Spec => KeepsPromise
  <1>1. IInv /\ Faulty /\ [Next]_vars => [Promise!Next]_(Promise!vars)
    BY PromiseStep
  <1> QED
    BY <1>1, PromiseInit, FaultyInit, FaultyStep, Invariance, PTL
       DEF Spec, KeepsPromise, Promise!Spec

(* CleanupRecorded: what is to be cleaned up is recorded or its record was *)
(* lost by a failure, and the record is true.                              *)
THEOREM CleanupStaysRecorded == Spec => []CleanupRecorded
  BY TypeCorrect, Remembered, FlagsAreTrue, PTL DEF CleanupRecorded

=============================================================================
