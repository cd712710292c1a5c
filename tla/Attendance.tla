----------------------------- MODULE Attendance -----------------------------
(***************************************************************************)
(* Class registers (attendance/service.go) beside the notifications they   *)
(* send.  A teacher of the class, or an administrator, opens the register  *)
(* of a day, marks students, clears marks and deletes the register; after  *)
(* 24 hours only an administrator may, and each change is audited.  The    *)
(* guardians of a student who becomes absent are notified with SendDirect. *)
(*                                                                         *)
(* MarkAttendance reads the register, then its records, then writes them   *)
(* in one transaction, then audits and notifies student by student, each   *)
(* time trusting what it read.  A request that runs here calls             *)
(* Notifications as the same request, and goes on when that returns.       *)
(*                                                                         *)
(* A class is the recipient rule that addresses it: both modules ask       *)
(* IsTeacherAssignedToClass.  The statuses present, late and excused are   *)
(* one; a batch has one entry per student.                                 *)
(***************************************************************************)
EXTENDS Notifications

CONSTANTS
    Classes,    \* the classes, as the rules that address them
    Days,       \* school days
    Students,   \* students of the classes
    Guardians,  \* Guardians[s]: the guardians of s with an account
    Registers   \* attendance_sessions that can be created (a bound)

ASSUME ClassesAssumption == Classes \subseteq Audiences
ASSUME GuardiansAssumption == Guardians \in [Students -> SUBSET Users]
ASSUME RegistersAssumption == None \notin Registers \cup Classes \cup Days \cup Students

VARIABLES
    register,  \* the attendance_sessions rows, and whether 24 hours passed
    record,    \* record[x][s]: the attendance_records row, or "none"
    mark       \* what each request is doing in this module

rollVars == <<register, record, mark>>
vars == <<register, record, mark, note, box, reach, call, granted, acked,
          faults>>

NoRegister == [status |-> "unused", class |-> None, day |-> None, old |-> FALSE]
Unmarked == [s \in Students |-> "none"]
Away == [at |-> "idle", register |-> None, class |-> None,
         day |-> None, locked |-> FALSE, seen |-> Unmarked,
         batch |-> Unmarked, cleared |-> {},
         todo |-> {}, telling |-> {}, student |-> None,
         changed |-> {}, missing |-> {}, logged |-> {}, told |-> {},
         crossed |-> FALSE]

Status == {"none", "here", "absent"}
Marks == [at : {"idle", "create", "drop", "load", "write", "tell", "notify",
                "wait", "answer"},
          register : Registers \cup {None},
          class : Classes \cup {None}, day : Days \cup {None},
          locked : BOOLEAN, seen : [Students -> Status],
          batch : [Students -> Status], cleared : SUBSET Students,
          todo : SUBSET Students, telling : SUBSET Students,
          student : Students \cup {None},
          changed : SUBSET Students, missing : SUBSET Students,
          logged : SUBSET Students, told : SUBSET Students, crossed : BOOLEAN]

TypeOK ==
    /\ NotesTypeOK
    /\ register \in [Registers -> [status : {"unused", "open", "deleted"},
                                   class : Classes \cup {None},
                                   day : Days \cup {None}, old : BOOLEAN]]
    /\ record \in [Registers -> [Students -> Status]]
    /\ mark \in [Requests -> Marks]

Init ==
    /\ NotesInit
    /\ register = [x \in Registers |-> NoRegister]
    /\ record = [x \in Registers |-> Unmarked]
    /\ mark = [r \in Requests |-> Away]

-----------------------------------------------------------------------------
MayRecord(u, c) == u \in Admins \/ (u \in Teachers /\ c \in reach[u])

Taken(c, d) ==
    \E x \in Registers : /\ register[x].status = "open"
                         /\ register[x].class = c /\ register[x].day = d

\* UNIQUE (class_id, date) of attendance_sessions.
Unique(c, d) == ~Taken(c, d)

Live(x) == register[x].status = "open"

\* Mutant: attendance_records without its foreign key.
NeedsNoRegister(x) == TRUE

\* The foreign key of attendance_records: a row needs its register.
HasRegister(x) == Live(x)

Free(r) == call[r].at = "idle" /\ mark[r].at = "idle"

Enter(r, m) ==
    /\ Free(r)
    /\ mark' = [mark EXCEPT ![r] = m]
    /\ UNCHANGED <<register, record, notesVars>>

\* The requests that have read the records of x and not written theirs yet
\* are crossed by a write of r.
Crossing(r, x) ==
    [q \in Requests |->
        IF q # r /\ mark[q].register = x /\ mark[q].at = "write"
        THEN [mark[q] EXCEPT !.crossed = TRUE]
        ELSE mark[q]]

\* Twenty-four hours after a register was opened.
LockWindowPasses(x) ==
    /\ Live(x) /\ ~register[x].old
    /\ register' = [register EXCEPT ![x].old = TRUE]
    /\ UNCHANGED <<record, mark, notesVars>>

-----------------------------------------------------------------------------
(* CreateSession and DeleteSession.                                         *)

CreateSession(r, u, c, d) ==
    /\ MayRecord(u, c) /\ ~Taken(c, d)
    /\ Enter(r, [Away EXCEPT !.at = "create", !.class = c, !.day = d])

InsertSession(r, x) ==
    LET m == mark[r] IN
    /\ m.at = "create" /\ register[x] = NoRegister /\ Unique(m.class, m.day)
    /\ register' = [register EXCEPT ![x] = [status |-> "open", old |-> FALSE,
                                            class |-> m.class, day |-> m.day]]
    /\ mark' = [mark EXCEPT ![r] = Away]
    /\ UNCHANGED <<record, notesVars>>

InsertSessionRefused(r) ==
    /\ mark[r].at = "create" /\ ~Unique(mark[r].class, mark[r].day)
    /\ mark' = [mark EXCEPT ![r] = Away]
    /\ UNCHANGED <<register, record, notesVars>>

DeleteSession(r, u, x) ==
    /\ Live(x) /\ MayRecord(u, register[x].class)
    /\ register[x].old => u \in Admins
    /\ Enter(r, [Away EXCEPT !.at = "drop", !.register = x,
                             !.locked = register[x].old])

\* The records go with the register.  Its audit entry concerns no student.
DropSession(r) ==
    LET x == mark[r].register IN
    /\ mark[r].at = "drop"
    /\ register' = [register EXCEPT ![x] = [NoRegister EXCEPT
                                            !.status = "deleted"]]
    /\ record' = [record EXCEPT ![x] = Unmarked]
    /\ mark' = [Crossing(r, x) EXCEPT ![r] = Away]
    /\ UNCHANGED notesVars

-----------------------------------------------------------------------------
(* MarkAttendance.                                                          *)

\* batch[s] is "none" for a student the request does not mark.
MarkAttendance(r, u, x, batch, cleared) ==
    /\ Live(x) /\ MayRecord(u, register[x].class)
    /\ register[x].old => u \in Admins
    /\ Enter(r, [Away EXCEPT !.at = "load", !.register = x,
                             !.locked = register[x].old, !.batch = batch,
                             !.cleared = cleared])

\* listRecords: a register deleted by now simply has none.
Load(r) ==
    /\ mark[r].at = "load"
    /\ mark' = [mark EXCEPT ![r].at = "write",
                            ![r].seen = record[mark[r].register]]
    /\ UNCHANGED <<register, record, notesVars>>

Marked(m) == {s \in Students : m.batch[s] # "none"}

\* markBatch: the marks to clear go first, then each entry is upserted.
After(m, before) ==
    [s \in Students |-> IF s \in Marked(m) THEN m.batch[s]
                        ELSE IF s \in m.cleared THEN "none" ELSE before[s]]

\* Mutant: the record read before is not compared.
AllAbsent(m) == {s \in Marked(m) : m.batch[s] = "absent"}

\* The entries that make a student absent who was not, by what was read.
NewlyAbsent(m) ==
    {s \in Marked(m) : m.batch[s] = "absent" /\ m.seen[s] # "absent"}

\* Mutant: the records are read again after the batch has cleared them.
ClearedAndMarked(m) == m.cleared \cap Marked(m)

\* The cleared students that had a record when it was read, or have one now.
Cleared(m) == {s \in m.cleared : m.seen[s] # "none" \/ s \in Marked(m)}

\* Audit entries are written for a register that was locked.
Logs(m, students) == IF m.locked THEN students ELSE {}

WriteBatch(r) ==
    LET m == mark[r]
        x == m.register
        before == record[x]
        after == After(m, before)
    IN  /\ m.at = "write"
        /\ HasRegister(x) \/ Marked(m) = {}
        /\ record' = [record EXCEPT ![x] = after]
        /\ mark' = [Crossing(r, x) EXCEPT
              ![r].at = "tell", ![r].todo = Marked(m),
              ![r].telling = NewlyAbsent(m), ![r].cleared = Cleared(m),
              ![r].seen = Unmarked, ![r].batch = Unmarked,
              ![r].changed = Logs(m, {s \in Students : before[s] # after[s]}),
              ![r].missing = {s \in Students : /\ Guardians[s] # {}
                                               /\ before[s] # "absent"
                                               /\ after[s] = "absent"}]
        /\ UNCHANGED <<register, notesVars>>

WriteBatchFails(r) ==
    /\ mark[r].at = "write"
    /\ ~HasRegister(mark[r].register) /\ Marked(mark[r]) # {}
    /\ mark' = [mark EXCEPT ![r] = Away]
    /\ UNCHANGED <<register, record, notesVars>>

\* A step whose error is ignored may fail.
Ignored(failed) == IF failed THEN Trouble ELSE UNCHANGED notesVars

\* An entry of the batch is audited; its guardians come next, if any.
HandleEntry(r, s, failed) ==
    LET m == mark[r] IN
    /\ m.at = "tell" /\ s \in m.todo
    /\ Ignored(failed)
    /\ mark' = [mark EXCEPT
          ![r].todo = @ \ {s}, ![r].student = s,
          ![r].at = IF s \in m.telling /\ Guardians[s] # {} THEN "notify"
                                                            ELSE "tell",
          ![r].logged = IF failed THEN @ ELSE @ \cup Logs(m, {s})]
    /\ UNCHANGED <<register, record>>

Notify(r) ==
    /\ mark[r].at = "notify"
    /\ SendDirect(r, Guardians[mark[r].student])
    /\ mark' = [mark EXCEPT ![r].at = "wait"]
    /\ UNCHANGED <<register, record>>

\* The names for the message cannot be read: nobody is notified.
NotifyFails(r) ==
    /\ mark[r].at = "notify" /\ Trouble
    /\ mark' = [mark EXCEPT ![r].at = "tell"]
    /\ UNCHANGED <<register, record>>

\* What SendDirect returned is ignored.
NotifyReturns(r) ==
    /\ mark[r].at = "wait" /\ Return(r)
    /\ mark' = [mark EXCEPT
          ![r].at = "tell",
          ![r].told = IF call[r].note \in acked THEN @ \cup {mark[r].student}
                                                ELSE @]
    /\ UNCHANGED <<register, record>>

LogCleared(r, failed) ==
    /\ mark[r].at = "tell" /\ mark[r].todo = {}
    /\ Ignored(failed)
    /\ mark' = [mark EXCEPT
          ![r].at = "answer",
          ![r].logged = IF failed THEN @
                        ELSE @ \cup Logs(mark[r], mark[r].cleared)]
    /\ UNCHANGED <<register, record>>

Answer(r) ==
    /\ mark[r].at = "answer"
    /\ mark' = [mark EXCEPT ![r] = Away]
    /\ UNCHANGED <<register, record, notesVars>>

\* A statement fails or the server stops: nothing undoes what was written.
Interrupted(r) ==
    /\ mark[r].at \notin {"idle", "answer"} /\ Stop(r)
    /\ mark' = [mark EXCEPT ![r] = Away]
    /\ UNCHANGED <<register, record>>

-----------------------------------------------------------------------------
Batches == [Students -> Status]

Register(r) ==
    \E u \in Senders :
        \/ \E c \in Classes, d \in Days : CreateSession(r, u, c, d)
        \/ \E x \in Registers :
               \/ DeleteSession(r, u, x)
               \/ \E batch \in Batches, cleared \in SUBSET Students :
                      MarkAttendance(r, u, x, batch, cleared)

Proceed(r) ==
    \/ \E x \in Registers : InsertSession(r, x)
    \/ InsertSessionRefused(r) \/ DropSession(r)
    \/ Load(r) \/ WriteBatch(r) \/ WriteBatchFails(r)
    \/ \E s \in Students, failed \in BOOLEAN : HandleEntry(r, s, failed)
    \/ Notify(r) \/ NotifyFails(r) \/ NotifyReturns(r)
    \/ \E failed \in BOOLEAN : LogCleared(r, failed)
    \/ Answer(r) \/ Interrupted(r)

Next ==
    \/ \E r \in Requests :
           \/ Register(r) \/ Proceed(r)
           \/ Free(r) /\ Composer(r) /\ UNCHANGED rollVars
           \/ Rest(r) /\ UNCHANGED rollVars
    \/ \E x \in Registers : LockWindowPasses(x)
    \/ Appointments /\ UNCHANGED rollVars

Spec == Init /\ [][Next]_vars

-----------------------------------------------------------------------------
(* Properties.                                                              *)

\* No record outlives its register: a batch whose register is deleted under
\* it is refused, not written for a register nobody can open.
NoOrphanMarks == \A x \in Registers : ~Live(x) => record[x] = Unmarked

\* r answers, no statement has failed, and nobody wrote to its register
\* between its reading and its writing.
Undisturbed(r) == mark[r].at = "answer" /\ ~mark[r].crossed /\ faults = 0

\* When a request answers, the guardians of exactly the students it made
\* absent have been notified, unless it was disturbed: marking again what is
\* absent already notifies nobody twice.
AbsencesTold == \A r \in Requests : Undisturbed(r) => mark[r].told = mark[r].missing

\* Every record that a request changed in a locked register is in the audit
\* log when it answers, the cleared ones too, with the same exception.
LockedChangesLogged ==
    \A r \in Requests :
        Undisturbed(r) => mark[r].changed \subseteq mark[r].logged

(* Marks belong to a register that exists, and every change of a locked     *)
(* register is in the audit trail.                                          *)
RegistersConsistent ==
    /\ TypeOK
    /\ NoOrphanMarks
    /\ LockedChangesLogged

(* A notice goes to those its sender was checked for, to all of them before *)
(* it is reported as sent, and from one request only.                       *)
NoticesConsistent ==
    /\ NobodyUnauthorised
    /\ AckedIsDelivered
    /\ OneSender

=============================================================================
