--------------------------- MODULE Planning_proofs ---------------------------
(***************************************************************************)
(* Proofs about what prepares a year: SchoolCalendar for any number of     *)
(* years, terms, runs and concurrent requests, Placement for any grade and *)
(* list of students, and Allocation for any school, runs and changes.      *)
(*                                                                         *)
(* Calendar: the constraints carry OneCurrent.  The rest depends on what a *)
(* request did some statements ago: from its UPDATE to its commit a switch *)
(* holds the row of the year it wants, as long as there is such a row      *)
(* (Switch), nobody deletes a row that is held (LocksLive), and a run that *)
(* is being reverted stays applied because its request holds it            *)
(* (RunsApart).                                                            *)
(*                                                                         *)
(* Placement: each rule has its own strengthening, which says why the      *)
(* choice it makes is never empty or wrong later on: NewHasMember,         *)
(* ReturningFirst with CameTooLate, GroupLeads, SpreadInTurn.              *)
(*                                                                         *)
(* Allocation: RunTrue ties the snapshot of a run to what others wrote     *)
(* since it read, and InOrder and FormsLast the proposal to the order in   *)
(* which it is made.                                                       *)
(***************************************************************************)
EXTENDS SchoolCalendar, Placement, Allocation, FiniteSetTheorems, TLAPS

-----------------------------------------------------------------------------
(* The calendar. *)

(* After the UPDATE of the years, and while a year is being deleted. *)
Switched == {"pick_term", "match_term", "set_term", "commit"}
Deleting == {"check", "delete"}

Used(y) == y # None => y \in Years /\ year[y] # "unused"

(* What a request still may rely on. *)
Switch(r) ==
    /\ Used(goal[r]) /\ Used(snapYear[r])
    /\ op[r] = "go_live" => run[r] \in GoLives /\ goal[r] \in Years
    /\ op[r] = "revert_go_live" =>
          /\ run[r] \in GoLives
          /\ state[run[r]] = "applied"
          /\ goal[r] = prevYear[run[r]]
    /\ pc[r] \in Deleting => run[r] \in Rollovers /\ goal[r] \in Years
    /\ pc[r] = "set_year" /\ goal[r] \in Years /\ Live(goal[r]) => goal[r] \in found[r]
    /\ pc[r] \in Switched /\ goal[r] \in Years /\ Live(goal[r]) => lock[goal[r]] = r
    /\ pc[r] = "delete" /\ goal[r] \in placed => goal[r] \in late

Switches == \A r \in Requests : Switch(r)

LocksLive ==
    /\ \A y \in Years : lock[y] # None => pc[lock[y]] \in Switched /\ Live(y)
    /\ \A t \in Terms : lock[t] # None => pc[lock[t]] \in Switched /\ LiveTerm(t)

RunsApart ==
    \A q, r \in Requests : run[q] = run[r] /\ run[q] # None => q = r

Snapshots ==
    \A x \in Runs :
        /\ Used(prevYear[x]) /\ Used(made[x])
        /\ x \in Rollovers /\ state[x] = "applied" => made[x] \in Years

(* A placed student is in a class. *)
PlacedInClass == placed \subseteq classes

IInv ==
    /\ TypeOK /\ NothingDangling /\ OneCurrent /\ PlacedInClass
    /\ Switches /\ LocksLive /\ RunsApart /\ Snapshots

-----------------------------------------------------------------------------
(* Types *)

LEMMA InitType == Init => TypeOK
  BY DEF Init, TypeOK, Existence, Steps, Operations

(* What the helpers do to the variables of the requests. *)
RequestType ==
    /\ lock' \in [Years \union Terms -> Requests \union {None}]
    /\ pc' \in [Requests -> Steps]
    /\ op' \in [Requests -> Operations]
    /\ run' \in [Requests -> Runs \union {None}]
    /\ goal' \in [Requests -> Years \union {None}]
    /\ goalTerm' \in [Requests -> Terms \union {None}]
    /\ found' \in [Requests -> SUBSET (Years \union Terms)]
    /\ snapYear' \in [Requests -> Years \union {None}]
    /\ snapTerm' \in [Requests -> Terms \union {None}]

(* The other requests are left alone. *)
Others(r) ==
    \A q \in Requests \ {r} :
        /\ pc'[q] = pc[q] /\ op'[q] = op[q] /\ run'[q] = run[q] /\ goal'[q] = goal[q]
        /\ found'[q] = found[q] /\ snapYear'[q] = snapYear[q]

LEMMA EndType ==
    ASSUME TypeOK, NEW r \in Requests, End(r)
    PROVE  /\ RequestType /\ Others(r)
           /\ pc'[r] = "idle" /\ op'[r] = "none" /\ run'[r] = None /\ goal'[r] = None
           /\ snapYear'[r] = None
           /\ \A w \in Years \union Terms : lock'[w] = IF lock[w] = r THEN None ELSE lock[w]
  BY DEF TypeOK, End, RequestType, Others, Steps, Operations

LEMMA StartType ==
    ASSUME TypeOK, NEW r \in Requests, NEW o \in Operations, NEW x \in Runs \union {None},
           NEW y \in Years \union {None}, NEW t \in Terms \union {None}, NEW step \in Steps,
           Start(r, o, x, y, t, step)
    PROVE  /\ RequestType /\ Others(r) /\ lock' = lock
           /\ pc[r] = "idle" /\ pc'[r] = step /\ op'[r] = o /\ run'[r] = x /\ goal'[r] = y
           /\ found'[r] = found[r] /\ snapYear'[r] = snapYear[r]
  BY DEF TypeOK, Start, RequestType, Others

LEMMA GotoType ==
    ASSUME TypeOK, NEW r \in Requests, NEW step \in Steps, Goto(r, step)
    PROVE  /\ pc' \in [Requests -> Steps] /\ pc'[r] = step
           /\ \A q \in Requests \ {r} : pc'[q] = pc[q]
  BY DEF TypeOK, Goto

LEMMA UpdateType ==
    ASSUME TypeOK, NEW r \in Requests, NEW S \in SUBSET (Years \union Terms),
           NEW step \in Steps, Update(r, S, step)
    PROVE  /\ pc' \in [Requests -> Steps] /\ pc'[r] = step
           /\ lock' \in [Years \union Terms -> Requests \union {None}]
           /\ found' \in [Requests -> SUBSET (Years \union Terms)]
           /\ \A q \in Requests \ {r} : pc'[q] = pc[q] /\ found'[q] = found[q]
           /\ \A w \in S : lock[w] = None
           /\ \A w \in Years \union Terms :
                 lock'[w] = IF w \in S /\ Matches(r, w) THEN r ELSE lock[w]
  <1>1. pc' \in [Requests -> Steps] /\ pc'[r] = step
        /\ \A q \in Requests \ {r} : pc'[q] = pc[q]
    BY GotoType DEF Update
  <1>2. lock' \in [Years \union Terms -> Requests \union {None}]
        /\ \A w \in Years \union Terms :
                 lock'[w] = IF w \in S /\ Matches(r, w) THEN r ELSE lock[w]
    BY DEF Update, TypeOK
  <1>3. found' \in [Requests -> SUBSET (Years \union Terms)]
        /\ \A q \in Requests \ {r} : found'[q] = found[q]
    BY DEF Update, TypeOK
  <1> QED
    BY <1>1, <1>2, <1>3 DEF Update, Free

LEMMA WaitType ==
    ASSUME TypeOK, NEW r \in Requests, NEW S \in SUBSET (Years \union Terms),
           NEW step \in Steps, Wait(r, S, step)
    PROVE  /\ pc' \in [Requests -> Steps] /\ pc'[r] = step
           /\ lock' = lock
           /\ found' \in [Requests -> SUBSET (Years \union Terms)] /\ found'[r] = S
           /\ \A q \in Requests \ {r} : pc'[q] = pc[q] /\ found'[q] = found[q]
  BY GotoType DEF TypeOK, Wait

LEMMA AfterYearType == \A r : AfterYear(r) \in {"pick_term", "match_term", "commit"}
  BY DEF AfterYear

LEMMA TheOneType ==
    ASSUME NEW S, NEW U, S \subseteq U PROVE TheOne(S) \in U \union {None}
  BY DEF TheOne

-----------------------------------------------------------------------------
(* What a step may do to the rows: no row comes back into use as "unused", *)
(* and a row that is held is not deleted.                                  *)
Rows ==
    /\ \A y \in Years :
          \/ year'[y] = year[y]
          \/ year[y] = "unused" /\ year'[y] = "live"
          \/ Live(y) /\ year'[y] = "deleted" /\ lock[y] = None
    /\ \A t \in Terms :
          \/ term'[t] = term[t]
          \/ term[t] # "live" /\ term'[t] = "live"
          \/ LiveTerm(t) /\ term'[t] = "deleted" /\ lock[t] = None

CalendarType ==
    /\ year' \in [Years -> Existence] /\ currentYear' \subseteq Years
    /\ term' \in [Terms -> Existence] /\ currentTerm' \subseteq Terms
    /\ classes' \subseteq Years /\ placed' \subseteq Years /\ late' \subseteq Years

RunsType ==
    /\ state' \in [Runs -> {"open", "applied", "reverted"}]
    /\ made' \in [Runs -> Years \union {None}]
    /\ prevYear' \in [Runs -> Years \union {None}]
    /\ prevTerm' \in [Runs -> Terms \union {None}]

LEMMA AllTypes == CalendarType /\ RunsType /\ RequestType => TypeOK'
  BY DEF CalendarType, RunsType, RequestType, TypeOK

LEMMA SameCalendar ==
    ASSUME TypeOK, UNCHANGED calendar
    PROVE  /\ Rows /\ CalendarType
           /\ NothingDangling => NothingDangling'
           /\ OneCurrent => OneCurrent'
           /\ PlacedInClass => PlacedInClass'
  <1>1. Rows /\ CalendarType
    BY DEF calendar, TypeOK, Rows, CalendarType
  <1>2. /\ NothingDangling => NothingDangling'
        /\ OneCurrent => OneCurrent'
        /\ PlacedInClass => PlacedInClass'
    BY DEF calendar, NothingDangling, OneCurrent, PlacedInClass, Live, LiveTerm
  <1> QED
    BY <1>1, <1>2

LEMMA SameRuns == ASSUME TypeOK, UNCHANGED runs PROVE RunsType
  BY DEF runs, TypeOK, RunsType

LEMMA UsedKept ==
    ASSUME TypeOK, Rows, NEW y, Used(y)
    PROVE  y # None => y \in Years /\ year'[y] # "unused"
  BY DEF TypeOK, Rows, Used, Live

(* What was known of a request stays known as long as the request itself   *)
(* and what it holds stay.                                                 *)
LEMMA SwitchKept ==
    ASSUME TypeOK, Rows, NEW q \in Requests, Switch(q),
           pc'[q] = pc[q], op'[q] = op[q], run'[q] = run[q], goal'[q] = goal[q],
           found'[q] = found[q], snapYear'[q] = snapYear[q],
           goal[q] \in Years /\ lock[goal[q]] = q => lock'[goal[q]] = q,
           op[q] = "revert_go_live" =>
               state'[run[q]] = state[run[q]] /\ prevYear'[run[q]] = prevYear[run[q]],
           pc[q] = "delete" /\ goal[q] \in placed' => goal[q] \in late'
    PROVE  Switch(q)'
  <1>1. Used(goal[q])' /\ Used(snapYear[q])'
    BY UsedKept DEF Switch, Used
  <1>2. goal[q] \in Years /\ pc[q] \in {"set_year"} \union Switched /\ Live(goal[q])' => Live(goal[q])
    BY NoneAssumption DEF Rows, Live, Switch, Used
  <1>3. /\ op'[q] = "go_live" => run'[q] \in GoLives /\ goal'[q] \in Years
        /\ op'[q] = "revert_go_live" =>
              /\ run'[q] \in GoLives
              /\ state'[run'[q]] = "applied"
              /\ goal'[q] = prevYear'[run'[q]]
        /\ pc'[q] \in Deleting => run'[q] \in Rollovers /\ goal'[q] \in Years
    BY DEF Switch
  <1>4. /\ pc'[q] = "set_year" /\ goal'[q] \in Years /\ Live(goal[q])' => goal'[q] \in found'[q]
        /\ pc'[q] \in Switched /\ goal'[q] \in Years /\ Live(goal[q])' => lock'[goal'[q]] = q
        /\ pc'[q] = "delete" /\ goal'[q] \in placed' => goal'[q] \in late'
    BY <1>2 DEF Switch
  <1> QED
    BY <1>1, <1>3, <1>4 DEF Switch

LEMMA SnapshotsKept ==
    ASSUME TypeOK, Rows, Snapshots, UNCHANGED runs PROVE Snapshots'
  BY UsedKept DEF Snapshots, Used, runs

(* A step of the admin, which leaves requests and locks alone. *)
LEMMA AdminKept ==
    ASSUME IInv, Rows, UNCHANGED <<lock, request>>,
           \A x \in GoLives : state'[x] = state[x] /\ prevYear'[x] = prevYear[x],
           \A q \in Requests : pc[q] = "delete" /\ goal[q] \in placed' => goal[q] \in late'
    PROVE  Switches' /\ LocksLive' /\ RunsApart' /\ RequestType
  <1>1. Switches'
    <2> SUFFICES ASSUME NEW q \in Requests PROVE Switch(q)'
      BY DEF Switches
    <2> QED
      BY SwitchKept DEF IInv, Switches, Switch, request
  <1>2. LocksLive'
    BY DEF IInv, TypeOK, LocksLive, Rows, Live, LiveTerm, request
  <1>3. RunsApart' /\ RequestType
    BY DEF IInv, TypeOK, RunsApart, RequestType, request
  <1> QED
    BY <1>1, <1>2, <1>3

(* Deleting a year that is free, with its terms. *)
LEMMA DropYearRows ==
    ASSUME TypeOK, NothingDangling, OneCurrent, NEW y \in Years, Live(y), DropYear(y)
    PROVE  /\ Rows
           /\ year' \in [Years -> Existence] /\ currentYear' \subseteq Years
           /\ term' \in [Terms -> Existence] /\ currentTerm' \subseteq Terms
           /\ \A z \in currentYear' : year'[z] = "live"
           /\ \A z \in Years \ {y} : year'[z] = year[z]
           /\ \A t \in currentTerm' : term'[t] = "live"
           /\ \A t \in Terms : term'[t] = "live" => year'[t[1]] = "live"
           /\ OneCurrent'
  <1>1. \A t \in Terms : t[1] \in Years
    BY DEF Terms
  <1>2. \A t \in Terms : term'[t] = "live" => LiveTerm(t) /\ t[1] # y
    BY DEF DropYear, TypeOK, TermsOf, LiveTerm
  <1>3. TermsOf(y) \subseteq Terms /\ \A t \in TermsOf(y) : LiveTerm(t)
    BY DEF TermsOf
  <1>4. Rows /\ year' \in [Years -> Existence] /\ term' \in [Terms -> Existence]
    BY <1>3 DEF DropYear, Rows, TypeOK, Existence, Free
  <1> QED
    BY <1>1, <1>2, <1>3, <1>4 DEF DropYear, TypeOK, NothingDangling, OneCurrent, Live, LiveTerm

LEMMA AdminStep ==
    ASSUME IInv, Admin PROVE IInv'
  <1> USE DEF IInv
  <1>0. \A t \in Terms : t[1] \in Years
    BY DEF Terms
  <1>1. ASSUME CalendarType, Rows, UNCHANGED <<lock, runs, request>>,
               NothingDangling', OneCurrent', PlacedInClass',
               \A q \in Requests : pc[q] = "delete" /\ goal[q] \in placed' => goal[q] \in late'
        PROVE  IInv'
    <2>1. \A x \in GoLives : state'[x] = state[x] /\ prevYear'[x] = prevYear[x]
      BY <1>1 DEF runs
    <2>2. Switches' /\ LocksLive' /\ RunsApart' /\ RequestType
      BY <1>1, <2>1, AdminKept
    <2> QED
      BY <1>1, <2>2, SameRuns, SnapshotsKept, AllTypes
  <1>a. ASSUME UNCHANGED <<placed, late>>
        PROVE  \A q \in Requests : pc[q] = "delete" /\ goal[q] \in placed' => goal[q] \in late'
    BY <1>a DEF Switches, Switch
  <1>2. ASSUME NEW y \in Years, CreateYear(y) PROVE IInv'
    <2>1. Rows /\ CalendarType /\ NothingDangling' /\ OneCurrent' /\ PlacedInClass'
      BY <1>0, <1>2 DEF CreateYear, Rows, CalendarType, TypeOK, Existence, NothingDangling,
                   OneCurrent, PlacedInClass, Live, LiveTerm
    <2> QED
      BY <1>1, <1>a, <1>2, <2>1 DEF CreateYear
  <1>3. ASSUME NEW y \in Years, DeleteYear(y) PROVE IInv'
    <2>1. Live(y) /\ DropYear(y) /\ y \notin classes /\ UNCHANGED <<classes, placed, late, lock, runs, request>>
      BY <1>3 DEF DeleteYear
    <2>2. Rows /\ CalendarType /\ OneCurrent' /\ PlacedInClass'
      BY <2>1, DropYearRows DEF CalendarType, TypeOK, PlacedInClass
    <2>3. \A z \in classes \union placed : z \in Years \ {y} /\ year[z] = "live"
      BY <2>1 DEF PlacedInClass, NothingDangling, Live, TypeOK
    <2>4. NothingDangling'
      BY <2>1, <2>3, DropYearRows DEF NothingDangling, Live, LiveTerm
    <2> QED
      BY <1>1, <1>a, <2>1, <2>2, <2>4
  <1>4. ASSUME NEW t \in Terms, CreateTerm(t) PROVE IInv'
    <2>1. Rows /\ CalendarType /\ NothingDangling' /\ OneCurrent' /\ PlacedInClass'
      BY <1>4 DEF CreateTerm, Rows, CalendarType, TypeOK, Existence, NothingDangling,
                   OneCurrent, PlacedInClass, Live, LiveTerm
    <2> QED
      BY <1>1, <1>a, <1>4, <2>1 DEF CreateTerm
  <1>5. ASSUME NEW t \in Terms, DeleteTerm(t) PROVE IInv'
    <2>1. Rows /\ CalendarType /\ NothingDangling' /\ OneCurrent' /\ PlacedInClass'
      BY <1>5 DEF DeleteTerm, Rows, CalendarType, TypeOK, Existence, NothingDangling,
                   OneCurrent, PlacedInClass, Live, LiveTerm, Free
    <2> QED
      BY <1>1, <1>a, <1>5, <2>1 DEF DeleteTerm
  <1>6. ASSUME NEW y \in Years, CreateClass(y) \/ DeleteClass(y) \/ Place(y) \/ Unplace(y)
        PROVE  IInv'
    <2>1. Rows /\ CalendarType /\ UNCHANGED <<lock, runs, request>>
      BY <1>6 DEF CreateClass, DeleteClass, Place, Unplace, Rows, CalendarType, TypeOK
    <2>2. NothingDangling' /\ OneCurrent' /\ PlacedInClass'
      BY <1>6 DEF CreateClass, DeleteClass, Place, Unplace, NothingDangling, OneCurrent,
                   PlacedInClass, Live, LiveTerm
    <2>3. \A q \in Requests : pc[q] = "delete" /\ goal[q] \in placed' => goal[q] \in late'
      BY <1>6 DEF CreateClass, DeleteClass, Place, Unplace, Switches, Switch
    <2> QED
      BY <1>1, <2>1, <2>2, <2>3
  <1>7. ASSUME NEW x \in Rollovers, NEW y \in Years, NEW S \in SUBSET Orders, NEW b \in BOOLEAN,
               ApplyRollover(x, y, S, b)
        PROVE  IInv'
    <2>1. x \in Runs /\ x \notin GoLives
      BY KindsAssumption DEF Runs
    <2>2. \A t \in Terms : t[1] = y => term[t] # "live"
      BY <1>7 DEF ApplyRollover, NothingDangling, Live, LiveTerm
    <2>3. Rows /\ CalendarType
      BY <1>7, <2>2 DEF ApplyRollover, Rows, CalendarType, TypeOK, Existence
    <2>4. RunsType
      BY <1>7, <2>1 DEF ApplyRollover, RunsType, TypeOK
    <2>5. OneCurrent' /\ PlacedInClass'
      BY <1>7 DEF ApplyRollover, OneCurrent, PlacedInClass
    <2>6. NothingDangling'
      <3>1. \A z \in currentYear' \union classes' \union placed' : year'[z] = "live"
        BY <1>7 DEF ApplyRollover, NothingDangling, Live, TypeOK
      <3>2. \A t \in currentTerm' : term'[t] = "live"
        BY <1>7 DEF ApplyRollover, NothingDangling, LiveTerm, TypeOK
      <3>3. \A t \in Terms : term'[t] = "live" => year'[t[1]] = "live"
        BY <1>0, <1>7 DEF ApplyRollover, NothingDangling, Live, LiveTerm, TypeOK
      <3> QED
        BY <3>1, <3>2, <3>3 DEF NothingDangling, Live, LiveTerm
    <2>7. UNCHANGED <<lock, request, placed, late, prevYear>>
          /\ \A u \in Runs : u # x => state'[u] = state[u] /\ made'[u] = made[u]
      BY <1>7, <2>1 DEF ApplyRollover, TypeOK
    <2>8. \A u \in GoLives : state'[u] = state[u] /\ prevYear'[u] = prevYear[u]
      BY <2>1, <2>7 DEF Runs
    <2>9. Switches' /\ LocksLive' /\ RunsApart' /\ RequestType
      BY <1>a, <2>3, <2>7, <2>8, AdminKept
    <2>10. made'[x] = y /\ year'[y] = "live"
      BY <1>7, <2>1 DEF ApplyRollover, TypeOK
    <2>11. Snapshots'
      <3> SUFFICES ASSUME NEW u \in Runs
                   PROVE  /\ Used(prevYear[u])' /\ Used(made[u])'
                          /\ u \in Rollovers /\ state'[u] = "applied" => made'[u] \in Years
        BY DEF Snapshots
      <3>1. Used(prevYear[u])'
        BY <2>3, <2>7, UsedKept DEF Snapshots, Used
      <3>2. u # x => Used(made[u])' /\ (u \in Rollovers /\ state'[u] = "applied" => made'[u] \in Years)
        BY <2>3, <2>7, UsedKept DEF Snapshots, Used
      <3> QED
        BY <2>10, <3>1, <3>2 DEF Used
    <2> QED
      BY <2>3, <2>4, <2>5, <2>6, <2>9, <2>11, AllTypes
  <1> QED
    BY <1>2, <1>3, <1>4, <1>5, <1>6, <1>7 DEF Admin

-----------------------------------------------------------------------------
(* Steps of a request *)

(* The other requests keep what they relied on. *)
LEMMA OthersKept ==
    ASSUME IInv, Rows, NEW r \in Requests, Others(r),
           \A q \in Requests \ {r}, y \in Years : lock[y] = q => lock'[y] = q,
           \A x \in Runs : x # run[r] => state'[x] = state[x] /\ prevYear'[x] = prevYear[x],
           \A y \in placed' : y \in placed /\ (y \in late => y \in late')
    PROVE  \A q \in Requests \ {r} : Switch(q)'
  <1> USE DEF IInv
  <1> SUFFICES ASSUME NEW q \in Requests \ {r} PROVE Switch(q)'
    OBVIOUS
  <1>1. Switch(q)
    BY DEF Switches
  <1>2. op[q] = "revert_go_live" => run[q] \in Runs /\ run[q] # run[r]
    BY <1>1, NoneAssumption DEF Switch, RunsApart, Runs
  <1>3. pc[q] = "delete" /\ goal[q] \in placed' => goal[q] \in late'
    BY <1>1 DEF Switch
  <1>4. /\ pc'[q] = pc[q] /\ op'[q] = op[q] /\ run'[q] = run[q] /\ goal'[q] = goal[q]
        /\ found'[q] = found[q] /\ snapYear'[q] = snapYear[q]
    BY DEF Others
  <1>5. goal[q] \in Years /\ lock[goal[q]] = q => lock'[goal[q]] = q
    OBVIOUS
  <1>6. op[q] = "revert_go_live" =>
               state'[run[q]] = state[run[q]] /\ prevYear'[run[q]] = prevYear[run[q]]
    BY <1>2
  <1> QED
    BY <1>1, <1>3, <1>4, <1>5, <1>6, SwitchKept

(* A row is held by the request that takes it, which is then past its first *)
(* UPDATE, or by the one that held it.                                      *)
LEMMA LocksKept ==
    ASSUME IInv, Rows, NEW r \in Requests, Others(r),
           \A w \in Years \union Terms : lock'[w] # None /\ lock'[w] # r => lock'[w] = lock[w],
           \A y \in Years : lock'[y] = r =>
               pc'[r] \in Switched /\ Live(y) /\ year' = year,
           \A t \in Terms : lock'[t] = r =>
               pc'[r] \in Switched /\ LiveTerm(t) /\ term' = term
    PROVE  LocksLive'
  <1> USE DEF IInv
  <1>1. ASSUME NEW y \in Years, lock'[y] # None PROVE pc'[lock'[y]] \in Switched /\ Live(y)'
    <2>1. CASE lock'[y] = r
      BY <2>1 DEF Live
    <2>2. CASE lock'[y] # r
      <3>1. lock'[y] = lock[y] /\ lock[y] \in Requests \ {r}
        BY <1>1, <2>2 DEF TypeOK
      <3>2. pc[lock[y]] \in Switched /\ Live(y)
        BY <1>1, <3>1 DEF LocksLive
      <3> QED
        BY <1>1, <3>1, <3>2 DEF Others, Rows, Live
    <2> QED
      BY <2>1, <2>2
  <1>2. ASSUME NEW t \in Terms, lock'[t] # None PROVE pc'[lock'[t]] \in Switched /\ LiveTerm(t)'
    <2>1. CASE lock'[t] = r
      BY <2>1 DEF LiveTerm
    <2>2. CASE lock'[t] # r
      <3>1. lock'[t] = lock[t] /\ lock[t] \in Requests \ {r}
        BY <1>2, <2>2 DEF TypeOK
      <3>2. pc[lock[t]] \in Switched /\ LiveTerm(t)
        BY <1>2, <3>1 DEF LocksLive
      <3> QED
        BY <1>2, <3>1, <3>2 DEF Others, Rows, LiveTerm
    <2> QED
      BY <2>1, <2>2
  <1> QED
    BY <1>1, <1>2 DEF LocksLive

(* A request holds rows only after its first UPDATE. *)
LEMMA NoLockBefore ==
    ASSUME IInv, NEW r \in Requests, pc[r] \notin Switched
    PROVE  \A w \in Years \union Terms : lock[w] # r
  BY NoneAssumption DEF IInv, LocksLive

LEMMA RunKept ==
    ASSUME RunsApart, NEW r \in Requests, Others(r), run'[r] \in {run[r], None} PROVE RunsApart'
  BY DEF RunsApart, Others

(* A request that starts holds no row, and its run belongs to it alone. *)
LEMMA StartStep ==
    ASSUME IInv, NEW r \in Requests, NEW o \in Operations, NEW x \in Runs \union {None},
           NEW y \in Years \union {None}, NEW t \in Terms \union {None}, NEW step \in Steps,
           Start(r, o, x, y, t, step), UNCHANGED runs, Rows, CalendarType,
           NothingDangling', OneCurrent', UNCHANGED <<classes, placed, late>>,
           x # None => RunFree(x),
           y # None => year'[y] # "unused",
           o = "go_live" => x \in GoLives /\ y \in Years,
           o = "revert_go_live" => x \in GoLives /\ state[x] = "applied" /\ y = prevYear[x],
           step \in Deleting => x \in Rollovers /\ y \in Years,
           step \in {"match_year", "snapshot", "check"} \/ (y = None /\ step \in {"match_term", "commit"})
    PROVE  IInv'
  <1> USE DEF IInv
  <1>1. /\ RequestType /\ Others(r) /\ lock' = lock
        /\ pc[r] = "idle" /\ pc'[r] = step /\ op'[r] = o /\ run'[r] = x /\ goal'[r] = y
        /\ found'[r] = found[r] /\ snapYear'[r] = snapYear[r]
    BY StartType
  <1>2. \A w \in Years \union Terms : lock[w] # r
    BY <1>1, NoLockBefore DEF Switched
  <1>3. LocksLive'
    BY <1>1, <1>2, LocksKept
  <1>4. RunsApart'
    BY <1>1 DEF RunsApart, Others, RunFree
  <1>5. \A q \in Requests \ {r} : Switch(q)'
    BY <1>1, OthersKept DEF runs
  <1>6. Used(snapYear[r])'
    BY <1>1, UsedKept DEF Switches, Switch, Used
  <1>7. Switch(r)'
    <2>1. Used(goal[r])'
      BY <1>1 DEF Used
    <2>2. /\ op'[r] = "go_live" => run'[r] \in GoLives /\ goal'[r] \in Years
          /\ op'[r] = "revert_go_live" =>
              /\ run'[r] \in GoLives
              /\ state'[run'[r]] = "applied"
              /\ goal'[r] = prevYear'[run'[r]]
          /\ pc'[r] \in Deleting => run'[r] \in Rollovers /\ goal'[r] \in Years
      BY <1>1 DEF runs
    <2>3. pc'[r] # "set_year" /\ pc'[r] # "delete" /\ (pc'[r] \in Switched => goal'[r] = None)
      BY <1>1 DEF Switched
    <2> QED
      BY <1>6, <2>1, <2>2, <2>3, NoneAssumption DEF Switch
  <1>8. Switches'
    BY <1>5, <1>7 DEF Switches
  <1>9. PlacedInClass' /\ Snapshots' /\ RunsType
    BY SameRuns, SnapshotsKept DEF PlacedInClass
  <1> QED
    BY <1>1, <1>3, <1>4, <1>8, <1>9, AllTypes

LEMMA ReceiveStep ==
    ASSUME IInv, NEW r \in Requests, Receive(r) PROVE IInv'
  <1> USE DEF IInv
  <1>0. /\ {"none", "set_year", "set_term", "go_live", "revert_go_live", "revert_rollover"}
               \subseteq Operations
        /\ {"snapshot", "match_year", "match_term", "check", "commit"} \subseteq Steps
        /\ "snapshot" \notin Deleting /\ "match_year" \notin Deleting
        /\ "match_term" \notin Deleting /\ "commit" \notin Deleting
    BY DEF Operations, Steps, Deleting
  <1>1. UNCHANGED calendar => /\ Rows /\ CalendarType /\ NothingDangling' /\ OneCurrent'
                              /\ UNCHANGED <<year, classes, placed, late>>
    BY SameCalendar DEF calendar
  <1>2. ASSUME NEW y \in Years, SetYear(r, y) PROVE IInv'
    <2>1. Start(r, "set_year", None, y, None, "match_year") /\ UNCHANGED calendar /\ UNCHANGED runs
          /\ year[y] = "live"
      BY <1>2 DEF SetYear, Live
    <2> QED
      BY <1>0, <1>1, <2>1, StartStep
  <1>3. ASSUME NEW y \in Years, CreateCurrentYear(r, y) PROVE IInv'
    <2>1. Start(r, "set_year", None, y, None, "match_year") /\ UNCHANGED runs
          /\ UNCHANGED <<classes, placed, late>>
      BY <1>3 DEF CreateCurrentYear
    <2>2. \A t \in Terms : t[1] \in Years
      BY DEF Terms
    <2>3. Rows /\ CalendarType /\ NothingDangling' /\ OneCurrent' /\ year'[y] = "live"
      BY <1>3, <2>2 DEF CreateCurrentYear, Rows, CalendarType, TypeOK, Existence, NothingDangling,
                   OneCurrent, Live, LiveTerm
    <2> QED
      BY <1>0, <2>1, <2>3, StartStep
  <1>4. ASSUME NEW t \in Terms, SetTerm(r, t) PROVE IInv'
    <2>1. Start(r, "set_term", None, None, t, "match_term") /\ UNCHANGED calendar /\ UNCHANGED runs
      BY <1>4 DEF SetTerm
    <2> QED
      BY <1>0, <1>1, <2>1, StartStep
  <1>5. ASSUME NEW x \in GoLives, NEW y \in Years, GoLive(r, x, y) PROVE IInv'
    <2>1. Start(r, "go_live", x, y, None, "snapshot") /\ UNCHANGED calendar /\ UNCHANGED runs
          /\ RunFree(x) /\ year[y] = "live" /\ x \in Runs
      BY <1>5 DEF GoLive, Live, Runs
    <2> QED
      BY <1>0, <1>1, <2>1, StartStep
  <1>6. ASSUME NEW x \in GoLives, RevertGoLive(r, x) PROVE IInv'
    <2> DEFINE step == CASE prevYear[x] # None -> "match_year"
                         [] prevYear[x] = None /\ prevTerm[x] # None -> "match_term"
                         [] OTHER -> "commit"
    <2>1. Start(r, "revert_go_live", x, prevYear[x], prevTerm[x], step)
          /\ UNCHANGED calendar /\ UNCHANGED runs
          /\ RunFree(x) /\ state[x] = "applied" /\ x \in Runs
      BY <1>6 DEF RevertGoLive, Runs
    <2>2. step = "match_year" \/ (prevYear[x] = None /\ step \in {"match_term", "commit"})
      OBVIOUS
    <2>3. prevYear[x] \in Years \union {None} /\ prevTerm[x] \in Terms \union {None}
          /\ (prevYear[x] # None => year[prevYear[x]] # "unused")
      BY <2>1 DEF TypeOK, Snapshots, Used
    <2> HIDE DEF step
    <2> QED
      BY <1>0, <1>1, <2>1, <2>2, <2>3, StartStep
  <1>7. ASSUME NEW x \in Rollovers, RevertRollover(r, x) PROVE IInv'
    <2>1. Start(r, "revert_rollover", x, made[x], None, "check")
          /\ UNCHANGED calendar /\ UNCHANGED runs
          /\ RunFree(x) /\ state[x] = "applied" /\ x \in Runs
      BY <1>7 DEF RevertRollover, Runs
    <2>2. made[x] \in Years /\ year[made[x]] # "unused"
      BY <2>1, NoneAssumption DEF Snapshots, Used
    <2> QED
      BY <1>0, <1>1, <2>1, <2>2, StartStep
  <1> QED
    BY <1>2, <1>3, <1>4, <1>5, <1>6, <1>7 DEF Receive

(* A statement of a request under way: the calendar and the runs stay.     *)
LEMMA StatementStep ==
    ASSUME IInv, NEW r \in Requests, UNCHANGED calendar, UNCHANGED runs,
           UNCHANGED <<op, run, goal>>, RequestType, Others(r),
           \A w \in Years \union Terms :
               lock'[w] = lock[w] \/ (lock[w] = None /\ lock'[w] = r /\ Matches(r, w)),
           (\E w \in Years \union Terms : lock'[w] = r) => pc'[r] \in Switched,
           Used(snapYear'[r]),
           pc'[r] \in Deleting => pc[r] \in Deleting,
           pc'[r] = "delete" => goal[r] \notin placed,
           pc'[r] = "set_year" /\ goal[r] \in Years /\ Live(goal[r]) => goal[r] \in found'[r],
           pc'[r] \in Switched /\ goal[r] \in Years /\ Live(goal[r]) => lock'[goal[r]] = r
    PROVE  IInv'
  <1> USE DEF IInv
  <1>1. /\ Rows /\ CalendarType /\ NothingDangling' /\ OneCurrent' /\ PlacedInClass'
        /\ UNCHANGED <<year, term, classes, placed, late>>
    BY SameCalendar DEF calendar
  <1>2. RunsType /\ Snapshots'
    BY <1>1, SameRuns, SnapshotsKept
  <1>3. \A q \in Requests \ {r}, y \in Years : lock[y] = q => lock'[y] = q
    BY NoneAssumption
  <1>4. \A q \in Requests \ {r} : Switch(q)'
    BY <1>1, <1>3, OthersKept DEF runs
  <1>5. RunsApart'
    BY RunKept
  <1>6. LocksLive'
    <2>1. \A w \in Years \union Terms : lock'[w] # None /\ lock'[w] # r => lock'[w] = lock[w]
      OBVIOUS
    <2>2. \A y \in Years : lock'[y] = r => pc'[r] \in Switched /\ Live(y) /\ year' = year
      BY <1>1, NoneAssumption DEF LocksLive, Matches
    <2>3. \A t \in Terms : t \notin Years
      BY RowsAssumption
    <2>4. \A t \in Terms : lock'[t] = r => pc'[r] \in Switched /\ LiveTerm(t) /\ term' = term
      BY <1>1, <2>3, NoneAssumption DEF LocksLive, Matches
    <2> QED
      BY <1>1, <2>1, <2>2, <2>4, LocksKept
  <1>7. Switch(r)'
    <2>1. Switch(r)
      BY DEF Switches
    <2>2. op'[r] = op[r] /\ run'[r] = run[r] /\ goal'[r] = goal[r]
      OBVIOUS
    <2>3. Used(goal[r])' /\ Used(snapYear[r])'
      BY <1>1, <2>1, <2>2 DEF Used, Switch
    <2>4. /\ op'[r] = "go_live" => run'[r] \in GoLives /\ goal'[r] \in Years
          /\ op'[r] = "revert_go_live" =>
              /\ run'[r] \in GoLives
              /\ state'[run'[r]] = "applied"
              /\ goal'[r] = prevYear'[run'[r]]
          /\ pc'[r] \in Deleting => run'[r] \in Rollovers /\ goal'[r] \in Years
      BY <2>1, <2>2 DEF Switch, runs
    <2>5. /\ pc'[r] = "set_year" /\ goal'[r] \in Years /\ Live(goal[r])' => goal'[r] \in found'[r]
          /\ pc'[r] \in Switched /\ goal'[r] \in Years /\ Live(goal[r])' => lock'[goal'[r]] = r
          /\ pc'[r] = "delete" /\ goal'[r] \in placed' => goal'[r] \in late'
      BY <1>1, <2>2 DEF Live
    <2> QED
      BY <2>3, <2>4, <2>5 DEF Switch
  <1>8. Switches'
    BY <1>4, <1>7 DEF Switches
  <1> QED
    BY <1>1, <1>2, <1>5, <1>6, <1>8, AllTypes

(* Steps that lock nothing. *)
LEMMA LocalStep ==
    ASSUME IInv, NEW r \in Requests, Snapshot(r) \/ PickTerm(r) \/ FindUnused(r) PROVE IInv'
  <1> USE DEF IInv
  <1>0. Switch(r) /\ {"match_year", "match_term", "commit", "delete"} \subseteq Steps
    BY DEF Switches, Steps
  <1>1. CASE Snapshot(r)
    <2>1. Goto(r, "match_year") /\ UNCHANGED calendar /\ UNCHANGED runs
          /\ UNCHANGED <<lock, op, run, goal, goalTerm, found>>
      BY <1>1 DEF Snapshot
    <2>2. /\ pc' \in [Requests -> Steps] /\ pc'[r] = "match_year"
          /\ \A q \in Requests \ {r} : pc'[q] = pc[q]
      BY <1>0, <2>1, GotoType
    <2>3. TheOne(currentYear) \in Years \union {None} /\ TheOne(currentTerm) \in Terms \union {None}
      BY TheOneType DEF TypeOK
    <2>4. snapYear'[r] = TheOne(currentYear) /\ \A q \in Requests \ {r} : snapYear'[q] = snapYear[q]
      BY <1>1 DEF Snapshot, TypeOK
    <2>5. snapYear' \in [Requests -> Years \union {None}] /\ snapTerm' \in [Requests -> Terms \union {None}]
      BY <1>1, <2>3 DEF Snapshot, TypeOK
    <2>6. Used(snapYear'[r])
      BY <2>4, NoneAssumption DEF TheOne, Used, NothingDangling, Live, TypeOK
    <2>7. RequestType /\ Others(r)
      BY <2>1, <2>2, <2>4, <2>5 DEF RequestType, Others, TypeOK
    <2>8. \A w \in Years \union Terms : lock'[w] # r
      BY <1>1, <2>1, NoLockBefore DEF Snapshot, Switched
    <2>9. pc'[r] \notin Deleting /\ pc'[r] \notin Switched /\ pc'[r] # "delete" /\ pc'[r] # "set_year"
      BY <2>2 DEF Deleting, Switched
    <2> QED
      BY <2>1, <2>6, <2>7, <2>8, <2>9, StatementStep
  <1>2. CASE PickTerm(r)
    <2> DEFINE step == IF TermsOf(goal[r]) = {} THEN "commit" ELSE "match_term"
    <2>1. Goto(r, step) /\ UNCHANGED calendar /\ UNCHANGED runs
          /\ UNCHANGED <<lock, op, run, goal, found, snapYear, snapTerm>>
          /\ pc[r] = "pick_term"
      BY <1>2 DEF PickTerm
    <2>2. step \in {"commit", "match_term"}
      OBVIOUS
    <2> HIDE DEF step
    <2>3. /\ pc' \in [Requests -> Steps] /\ pc'[r] = step
          /\ \A q \in Requests \ {r} : pc'[q] = pc[q]
      BY <1>0, <2>1, <2>2, GotoType
    <2>4. FirstTerm(goal[r]) \in Terms \union {None}
      BY TheOneType DEF FirstTerm, TermsOf
    <2>5. goalTerm' \in [Requests -> Terms \union {None}]
      BY <1>2, <2>4 DEF PickTerm, TypeOK
    <2>6. RequestType /\ Others(r)
      BY <2>1, <2>3, <2>5 DEF RequestType, Others, TypeOK
    <2>7. pc'[r] \in Switched /\ pc'[r] \notin Deleting /\ pc'[r] # "delete" /\ pc'[r] # "set_year"
      BY <2>2, <2>3 DEF Deleting, Switched
    <2>8. Used(snapYear'[r])
          /\ (goal[r] \in Years /\ Live(goal[r]) => lock[goal[r]] = r)
      BY <1>0, <2>1 DEF Switch, Switched
    <2> QED
      BY <2>1, <2>6, <2>7, <2>8, StatementStep
  <1>3. CASE FindUnused(r)
    <2>1. Goto(r, "delete") /\ UNCHANGED calendar /\ UNCHANGED runs
          /\ UNCHANGED <<lock, op, run, goal, goalTerm, found, snapYear, snapTerm>>
          /\ pc[r] = "check" /\ goal[r] \notin placed
      BY <1>3 DEF FindUnused
    <2>2. /\ pc' \in [Requests -> Steps] /\ pc'[r] = "delete"
          /\ \A q \in Requests \ {r} : pc'[q] = pc[q]
      BY <1>0, <2>1, GotoType
    <2>3. RequestType /\ Others(r)
      BY <2>1, <2>2 DEF RequestType, Others, TypeOK
    <2>4. \A w \in Years \union Terms : lock'[w] # r
      BY <2>1, NoLockBefore DEF Switched
    <2>5. pc[r] \in Deleting /\ pc'[r] \notin Switched /\ pc'[r] # "set_year"
      BY <2>1, <2>2 DEF Deleting, Switched
    <2>6. Used(snapYear'[r])
      BY <1>0, <2>1 DEF Switch
    <2> QED
      BY <2>1, <2>3, <2>4, <2>5, <2>6, StatementStep
  <1> QED
    BY <1>1, <1>2, <1>3

(* An UPDATE that takes its rows, and one that waits. *)
LEMMA TakeStep ==
    ASSUME IInv, NEW r \in Requests, NEW S \in SUBSET (Years \union Terms), NEW step \in Steps,
           Update(r, S, step), UNCHANGED calendar, UNCHANGED runs,
           UNCHANGED <<op, run, goal, goalTerm, snapYear, snapTerm>>,
           step \in Switched,
           goal[r] \in Years /\ Live(goal[r]) => goal[r] \in S \/ pc[r] \in Switched
    PROVE  IInv'
  <1> USE DEF IInv
  <1>0. Switch(r)
    BY DEF Switches
  <1>1. /\ pc' \in [Requests -> Steps] /\ pc'[r] = step
        /\ lock' \in [Years \union Terms -> Requests \union {None}]
        /\ found' \in [Requests -> SUBSET (Years \union Terms)]
        /\ \A q \in Requests \ {r} : pc'[q] = pc[q] /\ found'[q] = found[q]
        /\ \A w \in S : lock[w] = None
        /\ \A w \in Years \union Terms :
                 lock'[w] = IF w \in S /\ Matches(r, w) THEN r ELSE lock[w]
    BY UpdateType
  <1>2. RequestType /\ Others(r)
    BY <1>1 DEF RequestType, Others, TypeOK
  <1>3. \A w \in Years \union Terms :
             lock'[w] = lock[w] \/ (lock[w] = None /\ lock'[w] = r /\ Matches(r, w))
    BY <1>1
  <1>4. goal[r] \in Years /\ Live(goal[r]) => lock'[goal[r]] = r
    <2> SUFFICES ASSUME goal[r] \in Years, Live(goal[r]) PROVE lock'[goal[r]] = r
      OBVIOUS
    <2>1. Matches(r, goal[r])
      BY DEF Matches
    <2>2. CASE goal[r] \in S
      BY <1>1, <2>1, <2>2
    <2>3. CASE pc[r] \in Switched
      BY <1>0, <1>1, <2>3 DEF Switch
    <2> QED
      BY <2>2, <2>3
  <1>5. pc'[r] \in Switched /\ pc'[r] \notin Deleting /\ pc'[r] # "delete" /\ pc'[r] # "set_year"
    BY <1>1 DEF Switched, Deleting
  <1>6. Used(snapYear'[r])
    BY <1>0 DEF Switch
  <1> QED
    BY <1>2, <1>3, <1>4, <1>5, <1>6, StatementStep

LEMMA WaitStep ==
    ASSUME IInv, NEW r \in Requests, NEW S \in SUBSET (Years \union Terms), NEW step \in Steps,
           Wait(r, S, step), UNCHANGED calendar, UNCHANGED runs,
           UNCHANGED <<op, run, goal, goalTerm, snapYear, snapTerm>>,
           \/ /\ step = "set_year" /\ pc[r] \notin Switched
              /\ goal[r] \in Years /\ Live(goal[r]) => goal[r] \in S
           \/ step = "set_term" /\ pc[r] \in Switched
    PROVE  IInv'
  <1> USE DEF IInv
  <1>0. Switch(r)
    BY DEF Switches
  <1>1. /\ pc' \in [Requests -> Steps] /\ pc'[r] = step
        /\ lock' = lock
        /\ found' \in [Requests -> SUBSET (Years \union Terms)] /\ found'[r] = S
        /\ \A q \in Requests \ {r} : pc'[q] = pc[q] /\ found'[q] = found[q]
    BY WaitType
  <1>2. RequestType /\ Others(r)
    BY <1>1 DEF RequestType, Others, TypeOK
  <1>3. pc'[r] \notin Deleting /\ pc'[r] # "delete" /\ Used(snapYear'[r])
    BY <1>0, <1>1 DEF Deleting, Switch
  <1>4. CASE step = "set_year" /\ pc[r] \notin Switched
    <2>1. \A w \in Years \union Terms : lock'[w] # r
      BY <1>1, <1>4, NoLockBefore
    <2>2. pc'[r] = "set_year" /\ pc'[r] \notin Switched
      BY <1>1, <1>4 DEF Switched
    <2>3. goal[r] \in Years /\ Live(goal[r]) => goal[r] \in found'[r]
      BY <1>1, <1>4
    <2> QED
      BY <1>1, <1>2, <1>3, <2>1, <2>2, <2>3, StatementStep
  <1>5. CASE step = "set_term" /\ pc[r] \in Switched
    <2>1. pc'[r] \in Switched /\ pc'[r] # "set_year"
      BY <1>1, <1>5 DEF Switched
    <2>2. goal[r] \in Years /\ Live(goal[r]) => lock'[goal[r]] = r
      BY <1>0, <1>1, <1>5 DEF Switch
    <2> QED
      BY <1>1, <1>2, <1>3, <2>1, <2>2, StatementStep
  <1> QED
    BY <1>4, <1>5

LEMMA UpdateStep ==
    ASSUME IInv, NEW r \in Requests,
           MatchYear(r) \/ UpdateYear(r) \/ MatchTerm(r) \/ UpdateTerm(r)
    PROVE  IInv'
  <1> USE DEF IInv
  <1>0. /\ AfterYear(r) \in Steps /\ AfterYear(r) \in Switched
        /\ "commit" \in Steps /\ "commit" \in Switched
        /\ "set_year" \in Steps /\ "set_term" \in Steps
        /\ "match_term" \in Switched /\ "set_term" \in Switched
        /\ "match_year" \notin Switched
    BY AfterYearType DEF Steps, Switched
  <1>1. /\ YearRows(r) \in SUBSET (Years \union Terms)
        /\ TermRows(r) \in SUBSET (Years \union Terms)
        /\ found[r] \in SUBSET (Years \union Terms)
        /\ goal[r] \in Years /\ Live(goal[r]) => goal[r] \in YearRows(r)
    BY DEF YearRows, TermRows, TypeOK, Matches
  <1>2. CASE MatchYear(r)
    <2>1. /\ Update(r, YearRows(r), AfterYear(r)) \/ Wait(r, YearRows(r), "set_year")
          /\ UNCHANGED calendar /\ UNCHANGED runs
          /\ UNCHANGED <<op, run, goal, goalTerm, snapYear, snapTerm>> /\ pc[r] = "match_year"
      BY <1>2 DEF MatchYear
    <2>2. CASE Update(r, YearRows(r), AfterYear(r))
      BY <1>0, <1>1, <2>1, <2>2, TakeStep
    <2>3. CASE Wait(r, YearRows(r), "set_year")
      BY <1>0, <1>1, <2>1, <2>3, WaitStep
    <2> QED
      BY <2>1, <2>2, <2>3
  <1>3. CASE UpdateYear(r)
    <2>1. /\ Update(r, found[r], AfterYear(r))
          /\ UNCHANGED calendar /\ UNCHANGED runs
          /\ UNCHANGED <<op, run, goal, goalTerm, snapYear, snapTerm>> /\ pc[r] = "set_year"
      BY <1>3 DEF UpdateYear
    <2>2. goal[r] \in Years /\ Live(goal[r]) => goal[r] \in found[r]
      BY <2>1 DEF Switches, Switch
    <2> QED
      BY <1>0, <1>1, <2>1, <2>2, TakeStep
  <1>4. CASE MatchTerm(r)
    <2>1. /\ Update(r, TermRows(r), "commit") \/ Wait(r, TermRows(r), "set_term")
          /\ UNCHANGED calendar /\ UNCHANGED runs
          /\ UNCHANGED <<op, run, goal, goalTerm, snapYear, snapTerm>> /\ pc[r] = "match_term"
      BY <1>4 DEF MatchTerm
    <2>2. CASE Update(r, TermRows(r), "commit")
      BY <1>0, <1>1, <2>1, <2>2, TakeStep
    <2>3. CASE Wait(r, TermRows(r), "set_term")
      BY <1>0, <1>1, <2>1, <2>3, WaitStep
    <2> QED
      BY <2>1, <2>2, <2>3
  <1>5. CASE UpdateTerm(r)
    <2>1. /\ Update(r, found[r], "commit")
          /\ UNCHANGED calendar /\ UNCHANGED runs
          /\ UNCHANGED <<op, run, goal, goalTerm, snapYear, snapTerm>> /\ pc[r] = "set_term"
      BY <1>5 DEF UpdateTerm
    <2> QED
      BY <1>0, <1>1, <2>1, TakeStep
  <1> QED
    BY <1>2, <1>3, <1>4, <1>5

(* A request that ends holds no row and no run. *)
LEMMA EndStep ==
    ASSUME IInv, NEW r \in Requests, End(r), Rows, CalendarType, RunsType,
           NothingDangling', OneCurrent', PlacedInClass', Snapshots',
           \A x \in Runs : x # run[r] => state'[x] = state[x] /\ prevYear'[x] = prevYear[x],
           \A y \in placed' : y \in placed /\ (y \in late => y \in late')
    PROVE  IInv'
  <1> USE DEF IInv
  <1>1. /\ RequestType /\ Others(r)
        /\ pc'[r] = "idle" /\ op'[r] = "none" /\ run'[r] = None /\ goal'[r] = None
        /\ snapYear'[r] = None
        /\ \A w \in Years \union Terms : lock'[w] = IF lock[w] = r THEN None ELSE lock[w]
    BY EndType
  <1>2. \A q \in Requests \ {r} : Switch(q)'
    BY <1>1, OthersKept
  <1>3. Switch(r)'
    BY <1>1, NoneAssumption DEF Switch, Used, Deleting, Switched
  <1>4. \A w \in Years \union Terms :
            lock'[w] # r /\ (lock'[w] # None => lock'[w] = lock[w])
    BY <1>1, NoneAssumption
  <1>5. LocksLive'
    BY <1>1, <1>4, LocksKept
  <1>6. RunsApart'
    BY <1>1, RunKept
  <1>7. Switches'
    BY <1>2, <1>3 DEF Switches
  <1> QED
    BY <1>1, <1>5, <1>6, <1>7, AllTypes

(* The request wants a year that exists: its commit makes that year the    *)
(* current one and no other.                                               *)
LEMMA CommitSwitches ==
    ASSUME IInv, NEW r \in Requests, Commit(r), goal[r] \in Years, Live(goal[r])
    PROVE  currentYear' = {goal[r]}
  <1>1. lock[goal[r]] = r
    BY DEF IInv, Switches, Switch, Commit, Switched
  <1>2. goal[r] \in YearsAfter(r)
    BY <1>1 DEF YearsAfter, HeldBy
  <1> QED
    BY <1>2 DEF Commit, TwoCurrent

LEMMA CommitStep ==
    ASSUME IInv, NEW r \in Requests, Commit(r) PROVE IInv'
  <1> USE DEF IInv
  <1>0. Switch(r) /\ End(r) /\ UNCHANGED <<year, term, classes, placed, late>>
    BY DEF Commit, Switches
  <1>1. /\ \A y \in currentYear' : y \in Years /\ Live(y)
        /\ \A t \in currentTerm' : t \in Terms /\ LiveTerm(t)
    <2>1. currentYear' \subseteq currentYear \union (Years \intersect HeldBy(r))
      BY <1>0, NoneAssumption DEF Commit, YearsAfter, HeldBy, TypeOK
    <2>2. \A t \in TermsAfter(r) : t \in currentTerm \/ (t = goalTerm[r] /\ lock[t] = r /\ t \in Terms)
      BY NoneAssumption DEF TermsAfter, HeldBy, TypeOK
    <2>3. \A y \in Years \intersect HeldBy(r) : Live(y)
      BY NoneAssumption DEF HeldBy, LocksLive
    <2>4. \A t \in Terms : lock[t] = r => LiveTerm(t)
      BY NoneAssumption DEF LocksLive
    <2> QED
      BY <2>1, <2>2, <2>3, <2>4 DEF Commit, NothingDangling, TypeOK
  <1>2. Rows /\ CalendarType /\ NothingDangling' /\ OneCurrent' /\ PlacedInClass'
    <2>1. Rows
      BY <1>0 DEF Rows
    <2>2. CalendarType
      BY <1>0, <1>1 DEF CalendarType, TypeOK
    <2>3. OneCurrent'
      BY DEF Commit, TwoCurrent, OneCurrent
    <2>4. NothingDangling'
      BY <1>0, <1>1 DEF NothingDangling, Live, LiveTerm
    <2>5. PlacedInClass'
      BY <1>0 DEF PlacedInClass
    <2> QED
      BY <2>1, <2>2, <2>3, <2>4, <2>5
  <1>3. CASE op[r] = "go_live"
    <2>1. /\ state' = [state EXCEPT ![run[r]] = "applied"]
          /\ made' = [made EXCEPT ![run[r]] = goal[r]]
          /\ prevYear' = [prevYear EXCEPT ![run[r]] = snapYear[r]]
          /\ prevTerm' = [prevTerm EXCEPT ![run[r]] = snapTerm[r]]
      BY <1>3 DEF Commit
    <2>2. run[r] \in Runs /\ run[r] \notin Rollovers /\ goal[r] \in Years
          /\ Used(goal[r]) /\ Used(snapYear[r])
      BY <1>0, <1>3, KindsAssumption DEF Switch, Runs
    <2>3. RunsType
      BY <2>1, <2>2 DEF RunsType, TypeOK
    <2>4. \A x \in Runs : x # run[r] => state'[x] = state[x] /\ prevYear'[x] = prevYear[x]
                                        /\ made'[x] = made[x]
      BY <2>1 DEF TypeOK
    <2>5. made'[run[r]] = goal[r] /\ prevYear'[run[r]] = snapYear[r]
      BY <2>1, <2>2 DEF TypeOK
    <2>6. Snapshots'
      <3> SUFFICES ASSUME NEW x \in Runs
                   PROVE  /\ Used(prevYear[x])' /\ Used(made[x])'
                          /\ x \in Rollovers /\ state'[x] = "applied" => made'[x] \in Years
        BY DEF Snapshots
      <3>1. CASE x = run[r]
        BY <1>0, <2>2, <2>5, <3>1 DEF Used
      <3>2. CASE x # run[r]
        BY <1>0, <2>4, <3>2 DEF Used, Snapshots
      <3> QED
        BY <3>1, <3>2
    <2> QED
      BY <1>0, <1>2, <2>3, <2>4, <2>6, EndStep
  <1>4. CASE op[r] # "go_live"
    <2>1. UNCHANGED <<made, prevYear, prevTerm>>
          /\ (state' = state \/ (op[r] = "revert_go_live" /\ state' = [state EXCEPT ![run[r]] = "reverted"]))
      BY <1>4 DEF Commit
    <2>2. op[r] = "revert_go_live" => run[r] \in Runs
      BY <1>0 DEF Switch, Runs
    <2>3. state' \in [Runs -> {"open", "applied", "reverted"}]
          /\ \A x \in Runs : (x # run[r] => state'[x] = state[x])
                             /\ (state'[x] = "applied" => state[x] = "applied")
      BY <2>1, <2>2 DEF TypeOK
    <2>4. RunsType
      BY <2>1, <2>3 DEF RunsType, TypeOK
    <2>5. Snapshots'
      BY <1>0, <2>1, <2>3 DEF Snapshots, Used
    <2> QED
      BY <1>0, <1>2, <2>1, <2>3, <2>4, <2>5, EndStep
  <1> QED
    BY <1>3, <1>4

LEMMA DeleteStep ==
    ASSUME IInv, NEW r \in Requests, DeleteRolledOver(r) PROVE IInv'
  <1> USE DEF IInv
  <1>0. /\ Switch(r) /\ End(r) /\ UNCHANGED <<made, prevYear, prevTerm>>
        /\ run[r] \in Runs /\ goal[r] \in Years
        /\ classes' = classes \ {goal[r]} /\ placed' = placed \ {goal[r]} /\ late' = late \ {goal[r]}
        /\ state' = [state EXCEPT ![run[r]] = "reverted"]
    BY DEF DeleteRolledOver, Switches, Switch, Deleting, Runs
  <1>1. /\ Rows
        /\ year' \in [Years -> Existence] /\ currentYear' \subseteq Years
        /\ term' \in [Terms -> Existence] /\ currentTerm' \subseteq Terms
        /\ \A z \in currentYear' : year'[z] = "live"
        /\ \A z \in Years \ {goal[r]} : year'[z] = year[z]
        /\ \A t \in currentTerm' : term'[t] = "live"
        /\ \A t \in Terms : term'[t] = "live" => year'[t[1]] = "live"
        /\ OneCurrent'
    <2>1. CASE Live(goal[r])
      BY <1>0, <2>1, DropYearRows DEF DeleteRolledOver
    <2>2. CASE ~Live(goal[r])
      BY <2>2 DEF DeleteRolledOver, Rows, TypeOK, NothingDangling, OneCurrent, Live, LiveTerm
    <2> QED
      BY <2>1, <2>2
  <1>2. CalendarType /\ PlacedInClass'
    BY <1>0, <1>1 DEF CalendarType, PlacedInClass, TypeOK
  <1>3. \A z \in classes' \union placed' : z \in Years \ {goal[r]} /\ year[z] = "live"
    BY <1>0 DEF TypeOK, NothingDangling, Live
  <1>4. NothingDangling'
    BY <1>1, <1>3 DEF NothingDangling, Live, LiveTerm
  <1>5. /\ state' \in [Runs -> {"open", "applied", "reverted"}]
        /\ \A x \in Runs : (x # run[r] => state'[x] = state[x])
                           /\ (state'[x] = "applied" => state[x] = "applied")
    BY <1>0 DEF TypeOK
  <1>6. RunsType
    BY <1>0, <1>5 DEF RunsType, TypeOK
  <1>7. Snapshots'
    BY <1>0, <1>1, <1>5, UsedKept DEF Snapshots, Used
  <1>8. \A y \in placed' : y \in placed /\ (y \in late => y \in late')
    BY <1>0
  <1> QED
    BY <1>0, <1>1, <1>2, <1>4, <1>5, <1>6, <1>7, <1>8, EndStep

LEMMA RefusedStep ==
    ASSUME IInv, NEW r \in Requests, CommitRefused(r) \/ Fail(r) PROVE IInv'
  <1> USE DEF IInv
  <1>1. End(r) /\ UNCHANGED calendar /\ UNCHANGED runs
    BY DEF CommitRefused, Fail
  <1>2. Rows /\ CalendarType /\ NothingDangling' /\ OneCurrent' /\ PlacedInClass'
        /\ RunsType /\ Snapshots'
    BY <1>1, SameCalendar, SameRuns, SnapshotsKept
  <1>3. /\ \A x \in Runs : x # run[r] => state'[x] = state[x] /\ prevYear'[x] = prevYear[x]
        /\ \A y \in placed' : y \in placed /\ (y \in late => y \in late')
    BY <1>1 DEF calendar, runs
  <1> QED
    BY <1>1, <1>2, <1>3, EndStep

-----------------------------------------------------------------------------
(* The invariant *)

LEMMA InitIInv == Init => IInv
  <1> SUFFICES ASSUME Init PROVE IInv
    OBVIOUS
  <1>1. TypeOK
    BY InitType
  <1>2. NothingDangling /\ OneCurrent /\ PlacedInClass
    BY DEF Init, NothingDangling, OneCurrent, PlacedInClass, LiveTerm
  <1>3. Switches
    BY NoneAssumption DEF Init, Switches, Switch, Used, Switched, Deleting
  <1>4. LocksLive /\ RunsApart /\ Snapshots
    BY DEF Init, LocksLive, RunsApart, Snapshots, Used
  <1> QED
    BY <1>1, <1>2, <1>3, <1>4 DEF IInv

LEMMA NextIInv == IInv /\ [Next]_vars => IInv'
  <1> SUFFICES ASSUME IInv, [Next]_vars PROVE IInv'
    OBVIOUS
  <1>1. CASE Admin
    BY <1>1, AdminStep
  <1>2. ASSUME NEW r \in Requests, Receive(r) PROVE IInv'
    BY <1>2, ReceiveStep
  <1>3. ASSUME NEW r \in Requests, Proceed(r) PROVE IInv'
    BY <1>3, LocalStep, UpdateStep, CommitStep, DeleteStep, RefusedStep DEF Proceed
  <1>4. CASE UNCHANGED vars
    BY <1>4 DEF vars, IInv, TypeOK, NothingDangling, OneCurrent, PlacedInClass, Switches, Switch,
                LocksLive, RunsApart, Snapshots, Used, Live, LiveTerm
  <1> QED
    BY <1>1, <1>2, <1>3, <1>4 DEF Next

(* What requests rely on holds at every moment.                            *)
THEOREM Inductive == Spec => []IInv
  BY InitIInv, NextIInv, PTL DEF Spec

(* TypeOK: every variable of the calendar keeps its type.                  *)
THEOREM TypeCorrect == Spec => []TypeOK
  <1>1. IInv => TypeOK
    BY DEF IInv
  <1> QED
    BY <1>1, Inductive, PTL

(* OneCurrent: however switches overlap, at most one year and one term are *)
(* current.                                                                *)
THEOREM AtMostOneCurrent == Spec => []OneCurrent
  <1>1. IInv => OneCurrent
    BY DEF IInv
  <1> QED
    BY <1>1, Inductive, PTL

(* NothingDangling: what is current, and what hangs on a year, exists,     *)
(* although years and terms are deleted while switches to them are under   *)
(* way.                                                                    *)
THEOREM CurrentExists == Spec => []NothingDangling
  <1>1. IInv => NothingDangling
    BY DEF IInv
  <1> QED
    BY <1>1, Inductive, PTL

-----------------------------------------------------------------------------
(* What a step may never do *)

(* A go-live run changes its state at a commit of its own request only.    *)
LEMMA GoLiveMoves ==
    ASSUME IInv, [Next]_vars, NEW x \in GoLives, state'[x] # state[x]
    PROVE  \E r \in Requests :
              /\ Commit(r) /\ run[r] = x /\ year' = year
              /\ \/ op[r] = "go_live" /\ made'[x] = goal[r] /\ state'[x] = "applied"
                 \/ op[r] = "revert_go_live" /\ state'[x] = "reverted"
  <1> USE DEF IInv
  <1>0. x \in Runs /\ x \notin Rollovers
    BY KindsAssumption DEF Runs
  <1>1. ~Admin
    BY <1>0 DEF Admin, CreateYear, DeleteYear, CreateClass, DeleteClass, Place, Unplace,
                CreateTerm, DeleteTerm, ApplyRollover, TypeOK, runs
  <1>2. \A r \in Requests : ~Receive(r)
    BY DEF Receive, SetYear, CreateCurrentYear, SetTerm, GoLive, RevertGoLive, RevertRollover, runs
  <1>3. ASSUME NEW r \in Requests, Proceed(r) PROVE Commit(r)
    <2>1. ~DeleteRolledOver(r)
      BY <1>0 DEF DeleteRolledOver, Switches, Switch, Deleting, TypeOK
    <2> QED
      BY <1>3, <2>1 DEF Proceed, Snapshot, MatchYear, UpdateYear, PickTerm, MatchTerm, UpdateTerm,
                        CommitRefused, FindUnused, Fail, runs
  <1>4. PICK r \in Requests : Commit(r)
    BY <1>1, <1>2, <1>3 DEF Next, vars
  <1>5. /\ op[r] = "go_live" => run[r] \in Runs
        /\ op[r] = "revert_go_live" => run[r] \in Runs
    BY DEF Switches, Switch, Runs
  <1>6. CASE op[r] = "go_live"
    <2>1. state' = [state EXCEPT ![run[r]] = "applied"] /\ made' = [made EXCEPT ![run[r]] = goal[r]]
          /\ year' = year
      BY <1>4, <1>6 DEF Commit
    <2> QED
      BY <1>0, <1>4, <1>6, <2>1 DEF TypeOK
  <1>7. CASE op[r] = "revert_go_live"
    <2>1. state' = [state EXCEPT ![run[r]] = "reverted"] /\ year' = year
      BY <1>4, <1>7 DEF Commit
    <2> QED
      BY <1>0, <1>4, <1>7, <2>1 DEF TypeOK
  <1>8. CASE op[r] \notin {"go_live", "revert_go_live"}
    BY <1>4, <1>8 DEF Commit
  <1> QED
    BY <1>6, <1>7, <1>8

(* GoLiveSwitches: a go-live that says it is applied has made its year the *)
(* current one, if the year still exists.                                  *)
THEOREM AppliedIsCurrent == Spec => GoLiveSwitches
  <1>1. ASSUME IInv, [Next]_vars, NEW x \in GoLives,
               state[x] = "open", state'[x] = "applied", Live(made'[x])
        PROVE  currentYear' = {made'[x]}
    <2>1. PICK r \in Requests : Commit(r) /\ op[r] = "go_live" /\ made'[x] = goal[r]
      BY <1>1, GoLiveMoves
    <2>2. goal[r] \in Years
      BY <1>1, <2>1 DEF IInv, Switches, Switch
    <2> QED
      BY <1>1, <2>1, <2>2, CommitSwitches
  <1>2. IInv /\ [Next]_vars =>
           [\A x \in GoLives : state[x] = "open" /\ state'[x] = "applied" /\ Live(made'[x])
                => currentYear' = {made'[x]}]_vars
    BY <1>1
  <1> QED
    BY <1>2, Inductive, PTL DEF Spec, GoLiveSwitches

(* GoLiveUndone: a go-live that is reverted gives back the year of its     *)
(* snapshot, if that year still exists.                                    *)
THEOREM RevertedIsPrevious == Spec => GoLiveUndone
  <1>1. ASSUME IInv, [Next]_vars, NEW x \in GoLives,
               state[x] = "applied", state'[x] = "reverted",
               prevYear[x] # None, Live(prevYear[x])
        PROVE  currentYear' = {prevYear[x]}
    <2>1. PICK r \in Requests : Commit(r) /\ op[r] = "revert_go_live" /\ run[r] = x
      BY <1>1, GoLiveMoves
    <2>2. goal[r] = prevYear[x] /\ goal[r] \in Years
      BY <1>1, <2>1 DEF IInv, Switches, Switch, Used
    <2> QED
      BY <1>1, <2>1, <2>2, CommitSwitches
  <1>2. IInv /\ [Next]_vars =>
           [\A x \in GoLives :
               /\ state[x] = "applied" /\ state'[x] = "reverted"
               /\ prevYear[x] # None
               /\ Live(prevYear[x])
               => currentYear' = {prevYear[x]}]_vars
    BY <1>1
  <1> QED
    BY <1>2, Inductive, PTL DEF Spec, GoLiveUndone

(* RecordedStays: no year is deleted with students in its classes, except  *)
(* with those who were placed after a revert had found it empty.           *)
THEOREM PlacedYearsStay == Spec => RecordedStays
  <1>1. ASSUME IInv, [Next]_vars, NEW y \in Years, Live(y), year'[y] = "deleted"
        PROVE  y \notin placed \ late
    <2> USE <1>1 DEF IInv
    <2>1. ASSUME NEW z \in Years, DeleteYear(z) PROVE y \notin placed
      BY <2>1 DEF DeleteYear, DropYear, PlacedInClass, TypeOK, Live
    <2>2. ASSUME NEW r \in Requests, DeleteRolledOver(r) PROVE y \notin placed \ late
      <3>1. Switch(r) /\ goal[r] \in Years /\ pc[r] = "delete"
        BY <2>2 DEF DeleteRolledOver, Switches, Switch, Deleting
      <3>2. y = goal[r]
        BY <2>2, <3>1 DEF DeleteRolledOver, DropYear, TypeOK, Live
      <3> QED
        BY <3>1, <3>2 DEF Switch
    <2>3. year' # year
      BY DEF Live
    <2>4. ASSUME Admin PROVE \E z \in Years : DeleteYear(z)
      <3>1. ASSUME NEW z \in Years, CreateYear(z) \/ CreateClass(z) \/ DeleteClass(z) \/ Place(z) \/ Unplace(z)
            PROVE  FALSE
        BY <2>3, <3>1 DEF CreateYear, CreateClass, DeleteClass, Place, Unplace, TypeOK, Live
      <3>2. ASSUME NEW t \in Terms, CreateTerm(t) \/ DeleteTerm(t) PROVE FALSE
        BY <2>3, <3>2 DEF CreateTerm, DeleteTerm
      <3>3. ASSUME NEW x \in Rollovers, NEW z \in Years, NEW S \in SUBSET Orders, NEW b \in BOOLEAN,
                   ApplyRollover(x, z, S, b)
            PROVE  FALSE
        BY <3>3 DEF ApplyRollover, TypeOK, Live
      <3> QED
        BY <2>4, <3>1, <3>2, <3>3 DEF Admin
    <2>5. \A r \in Requests : ~Receive(r)
      BY <2>3 DEF Receive, SetYear, CreateCurrentYear, SetTerm, GoLive, RevertGoLive, RevertRollover,
                  calendar, TypeOK, Live
    <2>6. ASSUME NEW r \in Requests, Proceed(r) PROVE DeleteRolledOver(r)
      BY <2>3, <2>6 DEF Proceed, Snapshot, MatchYear, UpdateYear, PickTerm, MatchTerm, UpdateTerm,
                        Commit, CommitRefused, FindUnused, Fail, calendar
    <2> QED
      BY <2>1, <2>2, <2>3, <2>4, <2>5, <2>6 DEF Next, vars
  <1>2. IInv /\ [Next]_vars =>
           [\A y \in Years : Live(y) /\ year'[y] = "deleted" => y \notin placed \ late]_vars
    BY <1>1
  <1> QED
    BY <1>2, Inductive, PTL DEF Spec, RecordedStays

(* CalendarConsistent: one current year and term at most, and nothing      *)
(* hangs on a year or a term that is gone.                                 *)
THEOREM CalendarStaysConsistent == Spec => []CalendarConsistent
  BY TypeCorrect, AtMostOneCurrent, CurrentExists, PTL DEF CalendarConsistent

(* GoLivesHold: what go-live and its revert answer is what happened to the *)
(* current year.                                                           *)
THEOREM GoLivesKeepTheirWord == Spec => GoLivesHold
  BY AppliedIsCurrent, RevertedIsPrevious DEF GoLivesHold

-----------------------------------------------------------------------------
(* Placement, for any number of students and classes. *)

LEMMA GradeTypes ==
    ASSUME PlacementTypeOK
    PROVE  /\ Len(grade) \in Nat /\ DOMAIN grade = 1..Len(grade)
           /\ Len(place) \in Nat /\ DOMAIN place = 1..Len(place)
           /\ Len(students) \in Nat /\ DOMAIN students = 1..Len(students)
           /\ \A c \in DOMAIN grade : grade[c] \in Class
           /\ \A i \in DOMAIN place : place[i] \in Decision /\ i \in DOMAIN students
           /\ \A i \in DOMAIN students : students[i] \in Student
BY DEF PlacementTypeOK

(* The student who is placed next. *)
Current == students[Len(place) + 1]

(* A decision and the class it may have added are all a step writes. *)
Places(k) ==
    /\ Len(place) < Len(students)
    /\ \E w \in BOOLEAN : place' = Append(place, [class |-> k, warned |-> w])
    /\ UNCHANGED <<policy, spread, students>>

Leaves == Unplaceable(Current) /\ Places(0) /\ grade' = grade
Seats(k) == ~Unplaceable(Current) /\ k \in Chosen(Current) /\ Places(k) /\ grade' = grade
Opens ==
    /\ ~Unplaceable(Current)
    /\ Chosen(Current) = {}
    /\ Places(Len(grade) + 1)
    /\ grade' = Append(grade, AddClass(Current))

LEMMA PlacementMoves ==
    ASSUME PlacementNext
    PROVE  Leaves \/ (\E k : Seats(k)) \/ Opens
<1>1. /\ Len(place) < Len(students)
      /\ LeaveUnplaced(Current) \/ Seat(Current) \/ OpenSection(Current)
  BY DEF PlacementNext, Current
<1>2. CASE LeaveUnplaced(Current)
  BY <1>1, <1>2 DEF LeaveUnplaced, Decide, Leaves, Places
<1>3. CASE Seat(Current)
  <2>1. PICK k \in Chosen(Current) :
           Decide(k, Fallback(Current) \/ (policy = "by_subject_choice" /\ Current.choice = Unset))
    BY <1>3 DEF Seat
  <2> DEFINE w == Fallback(Current) \/ (policy = "by_subject_choice" /\ Current.choice = Unset)
  <2>2. w \in BOOLEAN
    BY DEF Fallback
  <2> QED
    BY <1>1, <1>3, <2>1, <2>2 DEF Seat, Decide, Seats, Places
<1>4. CASE OpenSection(Current)
  BY <1>1, <1>4 DEF OpenSection, Decide, Opens, Places
<1> QED
  BY <1>1, <1>2, <1>3, <1>4

LEMMA ChosenInGrade ==
    ASSUME PlacementTypeOK, NEW s
    PROVE  Chosen(s) \subseteq WithRoom(Candidates(s)) /\ Candidates(s) \subseteq DOMAIN grade
<1>1. Candidates(s) \subseteq DOMAIN grade
  BY DEF Candidates, Compatible, SameMedium, General, OfStream
<1>2. SameSection(s) \subseteq WithRoom(Candidates(s))
  BY DEF SameSection, First
<1>3. /\ LeastLoaded(Candidates(s), s) \subseteq WithRoom(Candidates(s))
      /\ WithMostSameChoice(Candidates(s), s) \subseteq WithRoom(Candidates(s))
      /\ Snake(Candidates(s), Len(place)) \subseteq WithRoom(Candidates(s))
  BY DEF LeastLoaded, WithMostSameChoice, Snake
<1>4. KeepSection(s) \subseteq WithRoom(Candidates(s))
  BY <1>2, <1>3 DEF KeepSection
<1> QED
  BY <1>1, <1>3, <1>4 DEF Chosen, PlacementTypeOK, Policies

LEMMA CurrentIsStudent ==
    ASSUME PlacementTypeOK, Len(place) < Len(students)
    PROVE  Current \in Student /\ Len(place) + 1 \in DOMAIN students
BY GradeTypes DEF Current

LEMMA AddedIsClass ==
    ASSUME PlacementTypeOK, Len(place) < Len(students)
    PROVE  AddClass(Current) \in Class
<1>1. Current \in Student
  BY CurrentIsStudent
<1>2. NextSection \in Nat
  BY GradeTypes DEF NextSection, Class
<1>3. DefaultCapacity \in Nat
  BY CapacityAssumption
<1> QED
  BY <1>1, <1>2, <1>3 DEF AddClass, Class, Student

(* What a step leaves of the decisions and classes there were. *)
LEMMA PlacesEffect ==
    ASSUME PlacementTypeOK, NEW k \in Nat, Places(k)
    PROVE  /\ Len(place') = Len(place) + 1
           /\ DOMAIN place' = DOMAIN place \union {Len(place) + 1}
           /\ Len(place) + 1 \notin DOMAIN place
           /\ place'[Len(place) + 1].class = k
           /\ \A i \in DOMAIN place : place'[i] = place[i]
           /\ place' \in Seq(Decision)
           /\ Len(place') <= Len(students)
<1>1. PICK w \in BOOLEAN : place' = Append(place, [class |-> k, warned |-> w])
  BY DEF Places
<1> DEFINE x == [class |-> k, warned |-> w]
<1>2. x \in Decision /\ x.class = k
  BY DEF Decision
<1>3. place \in Seq(Decision) /\ Len(place) < Len(students) /\ Len(students) \in Nat
  BY GradeTypes DEF PlacementTypeOK, Places
<1>4. place' = Append(place, x)
  BY <1>1
<1> HIDE DEF x
<1> QED
  BY <1>2, <1>3, <1>4

LEMMA OpensEffect ==
    ASSUME PlacementTypeOK, Opens
    PROVE  /\ Len(grade') = Len(grade) + 1
           /\ DOMAIN grade' = DOMAIN grade \union {Len(grade) + 1}
           /\ grade'[Len(grade) + 1] = AddClass(Current)
           /\ \A c \in DOMAIN grade : grade'[c] = grade[c]
           /\ grade' \in Seq(Class)
<1>1. AddClass(Current) \in Class
  BY AddedIsClass DEF Opens, Places
<1>2. grade \in Seq(Class) /\ grade' = Append(grade, AddClass(Current))
  BY DEF PlacementTypeOK, Opens
<1> QED
  BY <1>1, <1>2

(* In which class a step puts its student. *)
LEMMA PlacedWhere ==
    ASSUME PlacementTypeOK
    PROVE  /\ \A k : Seats(k) => k \in DOMAIN grade /\ k \in Nat /\ HasRoom(k)
                                 /\ k \in Candidates(Current)
           /\ Len(grade) + 1 \in Nat
BY ChosenInGrade, GradeTypes DEF Seats, WithRoom

LEMMA PlacementTypeStep ==
    PlacementTypeOK /\ [PlacementNext]_placementVars => PlacementTypeOK'
<1> SUFFICES ASSUME PlacementTypeOK, [PlacementNext]_placementVars
             PROVE  PlacementTypeOK'
  OBVIOUS
<1>1. CASE UNCHANGED placementVars
  BY <1>1 DEF placementVars, PlacementTypeOK
<1>2. CASE Leaves
  <2>1. Places(0) /\ grade' = grade
    BY <1>2 DEF Leaves
  <2> QED
    BY <2>1, PlacesEffect, GradeTypes DEF PlacementTypeOK, Places
<1>3. ASSUME NEW k, Seats(k)
      PROVE  PlacementTypeOK'
  <2>1. Places(k) /\ grade' = grade /\ k \in DOMAIN grade /\ k \in Nat
    BY <1>3, PlacedWhere DEF Seats
  <2> QED
    BY <2>1, PlacesEffect, GradeTypes DEF PlacementTypeOK, Places
<1>4. CASE Opens
  <2>1. Places(Len(grade) + 1) /\ Len(grade) \in Nat
    BY <1>4, GradeTypes DEF Opens
  <2>2. grade' \in Seq(Class) /\ Len(grade') = Len(grade) + 1
    BY <1>4, OpensEffect
  <2>3. /\ place' \in Seq(Decision) /\ Len(place') <= Len(students)
        /\ \A i \in DOMAIN place' : place'[i].class \in 0..Len(grade')
    BY <2>1, <2>2, PlacesEffect, GradeTypes DEF PlacementTypeOK
  <2> QED
    BY <2>1, <2>2, <2>3 DEF PlacementTypeOK, Places
<1> QED
  BY <1>1, <1>2, <1>3, <1>4, PlacementMoves

LEMMA PlacementStarts ==
    PlacementInit => /\ PlacementTypeOK
                     /\ place = <<>>
                     /\ \A c \in DOMAIN grade : ~grade[c].new
                     /\ OrderStudents(policy, spread, students)
<1> SUFFICES ASSUME PlacementInit
             PROVE  /\ PlacementTypeOK
                    /\ place = <<>>
                    /\ \A c \in DOMAIN grade : ~grade[c].new
                    /\ OrderStudents(policy, spread, students)
  OBVIOUS
<1>1. PICK family \in Inputs : \E in \in family :
        /\ OrderStudents(in.policy, in.spread, in.students)
        /\ policy = in.policy
        /\ spread = in.spread
        /\ students = in.students
        /\ grade = in.classes
        /\ place = <<>>
  BY DEF PlacementInit
<1>2. PICK in \in family :
        /\ OrderStudents(in.policy, in.spread, in.students)
        /\ policy = in.policy
        /\ spread = in.spread
        /\ students = in.students
        /\ grade = in.classes
        /\ place = <<>>
  BY <1>1
<1>3. in \in [policy: Policies, spread: BOOLEAN, students: Seq(Student), classes: Seq(Existing)]
  BY <1>1, InputsAssumption
<1>4. /\ policy \in Policies /\ spread \in BOOLEAN /\ students \in Seq(Student)
      /\ grade \in Seq(Existing)
  BY <1>2, <1>3
<1>5. grade \in Seq(Class) /\ \A c \in DOMAIN grade : ~grade[c].new
  BY <1>4 DEF Existing
<1>6. OrderStudents(policy, spread, students)
  BY <1>2
<1>7. place = <<>> /\ Len(students) \in Nat
  BY <1>2, <1>4
<1> QED
  BY <1>4, <1>5, <1>6, <1>7 DEF PlacementTypeOK

LEMMA MembersFinite ==
    ASSUME PlacementTypeOK, NEW c
    PROVE  Members(c) \in SUBSET DOMAIN place /\ IsFiniteSet(Members(c))
<1>1. Members(c) \subseteq 1..Len(place)
  BY GradeTypes DEF Members
<1>2. IsFiniteSet(1..Len(place))
  BY GradeTypes, FS_Interval
<1> QED
  BY <1>1, <1>2, FS_Subset, GradeTypes

LEMMA PartFinite ==
    ASSUME PlacementTypeOK, NEW c, NEW S \in SUBSET Members(c)
    PROVE  IsFiniteSet(S) /\ Cardinality(S) \in Nat
BY MembersFinite, FS_Subset, FS_CardinalityType

LEMMA CountsAreNumbers ==
    ASSUME PlacementTypeOK, NEW c, NEW s, NEW g
    PROVE  /\ Cardinality(Members(c)) \in Nat
           /\ Same(c, s) \in Nat /\ Gender(c, g) \in Nat
           /\ c \in DOMAIN grade => Count(c) \in Nat /\ grade[c].capacity \in Nat
                                       /\ Cardinality(Members(c)) <= Count(c)
<1>1. Cardinality(Members(c)) \in Nat /\ Same(c, s) \in Nat /\ Gender(c, g) \in Nat
  BY PartFinite DEF Same, Gender
<1>2. c \in DOMAIN grade => grade[c].occupied \in Nat /\ grade[c].capacity \in Nat
  BY GradeTypes DEF Class
<1> QED
  BY <1>1, <1>2 DEF Count

LEMMA OneMore ==
    ASSUME NEW S, IsFiniteSet(S), NEW i, i \notin S
    PROVE  Cardinality(S \union {i}) = Cardinality(S) + 1
BY FS_AddElement

(* A class is joined by the student a step places in it. *)
LEMMA MembersMove ==
    ASSUME PlacementTypeOK, NEW k \in Nat, Places(k), NEW c
    PROVE  Members(c)' = IF c = k THEN Members(c) \union {Len(place) + 1} ELSE Members(c)
<1>1. Members(c)' = {i \in DOMAIN place' : place'[i].class = c}
  BY DEF Members
<1> QED
  BY <1>1, PlacesEffect DEF Members

LEMMA CountMoves ==
    ASSUME PlacementTypeOK, NEW k \in Nat, Places(k), NEW c \in DOMAIN grade,
           grade'[c] = grade[c]
    PROVE  Count(c)' = IF c = k THEN Count(c) + 1 ELSE Count(c)
<1>1. Len(place) + 1 \notin Members(c) /\ IsFiniteSet(Members(c))
  BY MembersFinite, PlacesEffect
<1>2. Cardinality(Members(c) \union {Len(place) + 1}) = Cardinality(Members(c)) + 1
  BY <1>1, OneMore
<1>3. Cardinality(Members(c)') =
         IF c = k THEN Cardinality(Members(c)) + 1 ELSE Cardinality(Members(c))
  BY <1>2, MembersMove
<1>4. grade[c].occupied \in Nat /\ Cardinality(Members(c)) \in Nat
  BY CountsAreNumbers, GradeTypes DEF Class
<1>5. Count(c)' = grade'[c].occupied + Cardinality(Members(c)')
  BY DEF Count
<1> QED
  BY <1>3, <1>4, <1>5 DEF Count

LEMMA PartMoves ==
    ASSUME PlacementTypeOK, NEW k \in Nat, Places(k), NEW c, NEW T
    PROVE  Cardinality(Members(c)' \intersect T) =
              IF c = k /\ Len(place) + 1 \in T THEN Cardinality(Members(c) \intersect T) + 1
                                               ELSE Cardinality(Members(c) \intersect T)
<1>1. Len(place) + 1 \notin Members(c) \intersect T /\ IsFiniteSet(Members(c) \intersect T)
  BY MembersFinite, PlacesEffect, PartFinite
<1>2. Cardinality((Members(c) \intersect T) \union {Len(place) + 1})
        = Cardinality(Members(c) \intersect T) + 1
  BY <1>1, OneMore
<1>3. Members(c)' \intersect T =
         IF c = k /\ Len(place) + 1 \in T THEN (Members(c) \intersect T) \union {Len(place) + 1}
                                          ELSE Members(c) \intersect T
  BY MembersMove
<1> QED
  BY <1>2, <1>3

LEMMA SameMoves ==
    ASSUME PlacementTypeOK, NEW k \in Nat, Places(k), NEW c, NEW s
    PROVE  Same(c, s)' = IF c = k /\ Current.choice = s.choice THEN Same(c, s) + 1 ELSE Same(c, s)
<1> DEFINE T == {i \in DOMAIN students : students[i].choice = s.choice}
<1>1. Same(c, s) = Cardinality(Members(c) \intersect T)
  <2>1. Members(c) \intersect T = {i \in Members(c) : students[i].choice = s.choice}
    BY GradeTypes, MembersFinite
  <2> QED
    BY <2>1 DEF Same
<1>2. Same(c, s)' = Cardinality(Members(c)' \intersect T)
  <2>1. Members(c)' \subseteq DOMAIN students
    BY MembersMove, MembersFinite, GradeTypes, CurrentIsStudent DEF Places
  <2>2. Members(c)' \intersect T = {i \in Members(c)' : students[i].choice = s.choice}
    BY <2>1
  <2>3. students' = students
    BY DEF Places
  <2>4. Same(c, s)' = Cardinality({i \in Members(c)' : students'[i].choice = s.choice})
    BY DEF Same
  <2> QED
    BY <2>2, <2>3, <2>4
<1>3. Len(place) + 1 \in T <=> Current.choice = s.choice
  BY CurrentIsStudent DEF Current, Places
<1> HIDE DEF T
<1> QED
  BY <1>1, <1>2, <1>3, PartMoves

LEMMA GenderMoves ==
    ASSUME PlacementTypeOK, NEW k \in Nat, Places(k), NEW c, NEW g
    PROVE  Gender(c, g)' = IF c = k /\ Current.gender = g THEN Gender(c, g) + 1 ELSE Gender(c, g)
<1> DEFINE T == {i \in DOMAIN students : students[i].gender = g}
<1>1. Gender(c, g) = Cardinality(Members(c) \intersect T)
  <2>1. Members(c) \intersect T = {i \in Members(c) : students[i].gender = g}
    BY GradeTypes, MembersFinite
  <2> QED
    BY <2>1 DEF Gender
<1>2. Gender(c, g)' = Cardinality(Members(c)' \intersect T)
  <2>1. Members(c)' \subseteq DOMAIN students
    BY MembersMove, MembersFinite, GradeTypes, CurrentIsStudent DEF Places
  <2>2. Members(c)' \intersect T = {i \in Members(c)' : students[i].gender = g}
    BY <2>1
  <2>3. students' = students
    BY DEF Places
  <2>4. Gender(c, g)' = Cardinality({i \in Members(c)' : students'[i].gender = g})
    BY DEF Gender
  <2> QED
    BY <2>2, <2>3, <2>4
<1>3. Len(place) + 1 \in T <=> Current.gender = g
  BY CurrentIsStudent DEF Current, Places
<1> HIDE DEF T
<1> QED
  BY <1>1, <1>2, <1>3, PartMoves

-----------------------------------------------------------------------------
(* A class is chosen whenever a candidate has room.                         *)

(* A finite set has a minimal element for every strict order on it.         *)
LEMMA MinimalExists ==
    ASSUME NEW S, IsFiniteSet(S), S # {}, NEW R,
           \A a, b, c \in S : <<a, b>> \in R /\ <<b, c>> \in R => <<a, c>> \in R,
           \A a \in S : <<a, a>> \notin R
    PROVE  \E m \in S : \A a \in S : <<a, m>> \notin R
<1> DEFINE Below(x) == {a \in S : <<a, x>> \in R}
           family == {Below(x) : x \in S}
<1>1. family \subseteq FiniteSubsetsOf(S) /\ family # {}
  <2>1. \A x \in S : Below(x) \in SUBSET S /\ IsFiniteSet(Below(x))
    BY FS_Subset
  <2>2. PICK x \in S : TRUE
    OBVIOUS
  <2>3. Below(x) \in family
    OBVIOUS
  <2> HIDE DEF Below
  <2> QED
    BY <2>1, <2>3 DEF FiniteSubsetsOf
<1>2. PICK X \in family : \A Y \in family : <<Y, X>> \notin StrictSubsetOrdering(S)
  BY <1>1, FS_StrictSubsetOrderingWellFounded, WFMin
<1>3. PICK m \in S : X = Below(m)
  BY <1>2
<1>4. ASSUME NEW a \in S, <<a, m>> \in R
      PROVE  FALSE
  <2>1. Below(a) \subseteq Below(m) /\ a \in Below(m) /\ a \notin Below(a)
    BY <1>4
  <2>2. Below(a) \in SUBSET S /\ Below(m) \in SUBSET S
    OBVIOUS
  <2>3. <<Below(a), Below(m)>> \in StrictSubsetOrdering(S)
    BY <2>1, <2>2 DEF StrictSubsetOrdering
  <2> QED
    BY <1>2, <1>3, <2>3
<1> QED
  BY <1>4

LEMMA TimesPositive ==
    ASSUME NEW x \in Nat, NEW y \in Nat, NEW k \in Nat, k > 0
    PROVE  /\ x < y => x * k < y * k
           /\ x * k < y * k => x < y
           /\ x * k = y * k => x = y
<1>1. ASSUME x < y PROVE x * k < y * k
  <2>1. PICK d \in Nat : y = x + d /\ d > 0
    <3>1. y - x \in Nat /\ y = x + (y - x) /\ y - x > 0
      BY <1>1
    <3> QED
      BY <3>1
  <2>2. (x + d) * k = x * k + d * k
    OBVIOUS
  <2>3. d * k > 0 /\ d * k \in Nat /\ x * k \in Nat
    BY <2>1
  <2> QED
    BY <2>1, <2>2, <2>3
<1>2. ASSUME y < x PROVE y * k < x * k
  <2>1. PICK d \in Nat : x = y + d /\ d > 0
    <3>1. x - y \in Nat /\ x = y + (x - y) /\ x - y > 0
      BY <1>2
    <3> QED
      BY <3>1
  <2>2. (y + d) * k = y * k + d * k
    OBVIOUS
  <2>3. d * k > 0 /\ d * k \in Nat /\ y * k \in Nat
    BY <2>1
  <2> QED
    BY <2>1, <2>2, <2>3
<1>3. x * k \in Nat /\ y * k \in Nat
  OBVIOUS
<1> QED
  BY <1>1, <1>2, <1>3

(* Shares a/p, b/q and e/r are compared without dividing.                   *)
LEMMA SharesCompare ==
    ASSUME NEW a \in Nat, NEW b \in Nat, NEW e \in Nat,
           NEW p \in Nat, NEW q \in Nat, NEW r \in Nat, p > 0, q > 0, r > 0
    PROVE  /\ a * q < b * p /\ b * r < e * q => a * r < e * p
           /\ a * q < b * p /\ b * r = e * q => a * r < e * p
           /\ a * q = b * p /\ b * r < e * q => a * r < e * p
           /\ a * q = b * p /\ b * r = e * q => a * r = e * p
<1> DEFINE aq == a * q  bp == b * p  br == b * r  eq == e * q  ar == a * r  ep == e * p
<1>1. aq \in Nat /\ bp \in Nat /\ br \in Nat /\ eq \in Nat /\ ar \in Nat /\ ep \in Nat
  OBVIOUS
<1>2. aq * r = ar * q /\ bp * r = br * p /\ eq * p = ep * q
  OBVIOUS
<1>3. /\ aq < bp => aq * r < bp * r
      /\ br < eq => br * p < eq * p
      /\ ar * q < ep * q => ar < ep
      /\ ar * q = ep * q => ar = ep
  BY <1>1, TimesPositive
<1>4. /\ aq * r \in Nat /\ bp * r \in Nat /\ br * p \in Nat
      /\ eq * p \in Nat /\ ar * q \in Nat /\ ep * q \in Nat
  BY <1>1
<1> HIDE DEF aq, bp, br, eq, ar, ep
<1>5. /\ aq < bp /\ br < eq => ar < ep
      /\ aq < bp /\ br = eq => ar < ep
      /\ aq = bp /\ br < eq => ar < ep
      /\ aq = bp /\ br = eq => ar = ep
  BY <1>2, <1>3, <1>4
<1> QED
  BY <1>5 DEF aq, bp, br, eq, ar, ep

LEMMA LeastLoadedExists ==
    ASSUME PlacementTypeOK, NEW s, NEW cs \in SUBSET DOMAIN grade, WithRoom(cs) # {}
    PROVE  LeastLoaded(cs, s) # {}
<1> DEFINE S == WithRoom(cs)
           R == {x \in S \X S : Better(x[1], x[2], s)}
<1>1. IsFiniteSet(S)
  <2>1. IsFiniteSet(DOMAIN grade)
    BY GradeTypes, FS_Interval
  <2>2. S \subseteq DOMAIN grade
    BY DEF WithRoom
  <2> QED
    BY <2>1, <2>2, FS_Subset
<1>2. \A c \in S : /\ Count(c) \in Nat /\ grade[c].capacity \in Nat /\ grade[c].capacity > 0
                   /\ Gender(c, s.gender) \in Nat
  BY CountsAreNumbers DEF WithRoom, HasRoom
<1>3. \A a, b \in S : <<a, b>> \in R <=> Better(a, b, s)
  OBVIOUS
<1>4. \A a \in S : ~Better(a, a, s)
  BY <1>2 DEF Better
<1>5. ASSUME NEW a \in S, NEW b \in S, NEW e \in S, Better(a, b, s), Better(b, e, s)
      PROVE  Better(a, e, s)
  <2> DEFINE LoadOf(x, y) == Count(x) * grade[y].capacity
  <2>1. \A x, y \in S : Better(x, y, s) <=> \/ LoadOf(x, y) < LoadOf(y, x)
                                            \/ /\ LoadOf(x, y) = LoadOf(y, x)
                                               /\ Gender(x, s.gender) < Gender(y, s.gender)
    BY DEF Better
  <2>2. /\ LoadOf(a, b) < LoadOf(b, a) /\ LoadOf(b, e) < LoadOf(e, b) => LoadOf(a, e) < LoadOf(e, a)
        /\ LoadOf(a, b) < LoadOf(b, a) /\ LoadOf(b, e) = LoadOf(e, b) => LoadOf(a, e) < LoadOf(e, a)
        /\ LoadOf(a, b) = LoadOf(b, a) /\ LoadOf(b, e) < LoadOf(e, b) => LoadOf(a, e) < LoadOf(e, a)
        /\ LoadOf(a, b) = LoadOf(b, a) /\ LoadOf(b, e) = LoadOf(e, b) => LoadOf(a, e) = LoadOf(e, a)
    <3> DEFINE u == Count(a)  v == Count(b)  w == Count(e)
               p == grade[a].capacity  q == grade[b].capacity  r == grade[e].capacity
    <3>1. /\ u \in Nat /\ v \in Nat /\ w \in Nat
          /\ p \in Nat /\ q \in Nat /\ r \in Nat /\ p > 0 /\ q > 0 /\ r > 0
      BY <1>2
    <3> HIDE DEF u, v, w, p, q, r
    <3>2. /\ u * q < v * p /\ v * r < w * q => u * r < w * p
          /\ u * q < v * p /\ v * r = w * q => u * r < w * p
          /\ u * q = v * p /\ v * r < w * q => u * r < w * p
          /\ u * q = v * p /\ v * r = w * q => u * r = w * p
      BY <3>1, SharesCompare
    <3> QED
      BY <3>2 DEF u, v, w, p, q, r
  <2> HIDE DEF LoadOf
  <2> QED
    BY <1>2, <1>5, <2>1, <2>2
<1> HIDE DEF R
<1>6. PICK m \in S : \A a \in S : <<a, m>> \notin R
  BY <1>1, <1>3, <1>4, <1>5, MinimalExists
<1> QED
  BY <1>3, <1>6 DEF LeastLoaded

LEMMA SnakeExists ==
    ASSUME PlacementTypeOK, NEW cs \in SUBSET DOMAIN grade, NEW rank \in Nat, WithRoom(cs) # {}
    PROVE  Snake(cs, rank) # {}
<1> DEFINE S == WithRoom(cs)
           R == {x \in S \X S : Distance(cs, x[1], rank) < Distance(cs, x[2], rank)}
<1>1. IsFiniteSet(S) /\ IsFiniteSet(cs) /\ cs # {}
  <2>1. IsFiniteSet(DOMAIN grade)
    BY GradeTypes, FS_Interval
  <2>2. S \subseteq DOMAIN grade
    BY DEF WithRoom
  <2> QED
    BY <2>1, <2>2, FS_Subset DEF WithRoom
<1>2. \A a, b \in S : <<a, b>> \in R <=> Distance(cs, a, rank) < Distance(cs, b, rank)
  OBVIOUS
<1>3. \A c \in S : Distance(cs, c, rank) \in Int
  <2>1. Cardinality(cs) \in Nat /\ Cardinality(cs) > 0
    BY <1>1, FS_CardinalityType, FS_EmptySet
  <2>2. \A c \in S : Position(cs, c) \in Nat
    <3>1. \A c \in S : {d \in cs : d < c} \subseteq cs
      OBVIOUS
    <3> QED
      BY <1>1, <3>1, FS_Subset, FS_CardinalityType DEF Position
  <2> DEFINE n == Cardinality(cs)
  <2>3. n \in Nat /\ n > 0
    BY <2>1
  <2> HIDE DEF n
  <2>4. Turn(n, rank) \in Int
    BY <2>3 DEF Turn
  <2>5. \A c \in S : Distance(cs, c, rank) = (n + Position(cs, c) - Turn(n, rank)) % n
    BY DEF Distance, n
  <2> QED
    BY <2>2, <2>3, <2>4, <2>5
<1> HIDE DEF R
<1>4. \A a, b, c \in S : <<a, b>> \in R /\ <<b, c>> \in R => <<a, c>> \in R
  BY <1>2, <1>3
<1>5. \A a \in S : <<a, a>> \notin R
  BY <1>2, <1>3
<1>6. PICK m \in S : \A a \in S : <<a, m>> \notin R
  BY <1>1, <1>4, <1>5, MinimalExists
<1>7. \A a \in S : Distance(cs, m, rank) <= Distance(cs, a, rank)
  <2> SUFFICES ASSUME NEW a \in S
               PROVE  Distance(cs, m, rank) <= Distance(cs, a, rank)
    OBVIOUS
  <2>1. ~(Distance(cs, a, rank) < Distance(cs, m, rank))
    BY <1>2, <1>6
  <2> QED
    BY <1>3, <2>1
<1> QED
  BY <1>7 DEF Snake

LEMMA GathersExists ==
    ASSUME PlacementTypeOK, NEW s, NEW cs \in SUBSET DOMAIN grade, WithRoom(cs) # {}
    PROVE  WithMostSameChoice(cs, s) # {}
<1> DEFINE S == WithRoom(cs)
           R == {x \in S \X S : Gathers(x[1], x[2], s)}
<1>1. IsFiniteSet(S) /\ S \subseteq Nat
  <2>1. IsFiniteSet(DOMAIN grade) /\ DOMAIN grade \subseteq Nat
    BY GradeTypes, FS_Interval
  <2>2. S \subseteq DOMAIN grade
    BY DEF WithRoom
  <2> QED
    BY <2>1, <2>2, FS_Subset
<1>2. \A a, b \in S : <<a, b>> \in R <=> Gathers(a, b, s)
  OBVIOUS
<1>3. \A c \in S : Same(c, s) \in Nat /\ Count(c) \in Nat
  BY CountsAreNumbers DEF WithRoom
<1> HIDE DEF R
<1>4. \A a, b, c \in S : <<a, b>> \in R /\ <<b, c>> \in R => <<a, c>> \in R
  BY <1>1, <1>2, <1>3 DEF Gathers
<1>5. \A a \in S : <<a, a>> \notin R
  BY <1>1, <1>2, <1>3 DEF Gathers
<1>6. PICK m \in S : \A a \in S : <<a, m>> \notin R
  BY <1>1, <1>4, <1>5, MinimalExists
<1>7. \A a \in S \ {m} : Gathers(m, a, s)
  <2> SUFFICES ASSUME NEW a \in S \ {m}
               PROVE  Gathers(m, a, s)
    OBVIOUS
  <2>1. ~Gathers(a, m, s)
    BY <1>2, <1>6
  <2>2. a \in Nat /\ m \in Nat /\ a # m
    BY <1>1
  <2>3. /\ Same(a, s) \in Nat /\ Same(m, s) \in Nat
        /\ Count(a) \in Nat /\ Count(m) \in Nat
    BY <1>3
  <2> QED
    BY <2>1, <2>2, <2>3 DEF Gathers
<1> QED
  BY <1>7 DEF WithMostSameChoice

(* A section is added only when no candidate has room. *)
LEMMA NoneChosen ==
    ASSUME PlacementTypeOK, NEW s, Chosen(s) = {}
    PROVE  WithRoom(Candidates(s)) = {}
<1>1. Candidates(s) \in SUBSET DOMAIN grade
  BY ChosenInGrade
<1>2. SUFFICES ASSUME WithRoom(Candidates(s)) # {}
               PROVE  FALSE
  OBVIOUS
<1>3. LeastLoaded(Candidates(s), s) # {} /\ WithMostSameChoice(Candidates(s), s) # {}
  BY <1>1, <1>2, LeastLoadedExists, GathersExists
<1>4. Len(place) \in Nat
  BY GradeTypes
<1>5. Snake(Candidates(s), Len(place)) # {}
  BY <1>1, <1>2, <1>4, SnakeExists
<1>6. KeepSection(s) # {}
  BY <1>3 DEF KeepSection
<1> QED
  BY <1>3, <1>5, <1>6 DEF Chosen, PlacementTypeOK, Policies

-----------------------------------------------------------------------------
(* Sections are added when the classes are full.                            *)

(* A step changes a class that was there only by seating its student in it, *)
(* which it does if there is room.                                          *)
LEMMA OldClass ==
    ASSUME PlacementTypeOK, PlacementNext, NEW c \in DOMAIN grade
    PROVE  /\ c \in DOMAIN grade' /\ grade'[c] = grade[c]
           /\ \/ Members(c)' = Members(c) /\ Count(c)' = Count(c)
              \/ /\ HasRoom(c) /\ Count(c)' = Count(c) + 1
                 /\ Members(c)' = Members(c) \union {Len(place) + 1}
<1>n. c \in Nat /\ c # 0 /\ c # Len(grade) + 1
  BY GradeTypes
<1>1. CASE Leaves
  <2>1. Places(0) /\ grade' = grade
    BY <1>1 DEF Leaves
  <2> QED
    BY <1>n, <2>1, MembersMove, CountMoves
<1>2. ASSUME NEW k, Seats(k)
      PROVE  /\ c \in DOMAIN grade' /\ grade'[c] = grade[c]
             /\ \/ Members(c)' = Members(c) /\ Count(c)' = Count(c)
                \/ /\ HasRoom(c) /\ Count(c)' = Count(c) + 1
                   /\ Members(c)' = Members(c) \union {Len(place) + 1}
  <2>1. Places(k) /\ grade' = grade /\ k \in Nat /\ HasRoom(k)
    BY <1>2, PlacedWhere DEF Seats
  <2> QED
    BY <2>1, MembersMove, CountMoves
<1>3. CASE Opens
  <2>1. Places(Len(grade) + 1) /\ Len(grade) + 1 \in Nat
    BY <1>3, GradeTypes DEF Opens
  <2>2. c \in DOMAIN grade' /\ grade'[c] = grade[c]
    BY <1>3, OpensEffect
  <2> QED
    BY <1>n, <2>1, <2>2, MembersMove, CountMoves
<1> QED
  BY <1>1, <1>2, <1>3, PlacementMoves

(* The class that is added has the current student and nobody else. *)
LEMMA NewClass ==
    ASSUME PlacementTypeOK, PlacementNext, NEW c \in DOMAIN grade', c \notin DOMAIN grade
    PROVE  /\ Opens /\ c = Len(grade) + 1
           /\ grade'[c] = AddClass(Current)
           /\ Members(c)' = {Len(place) + 1}
           /\ Count(c)' = 1
<1>1. Opens
  BY PlacementMoves DEF Leaves, Seats
<1>2. c = Len(grade) + 1 /\ grade'[c] = AddClass(Current)
  BY <1>1, OpensEffect
<1>3. Places(c) /\ c \in Nat
  BY <1>1, <1>2, GradeTypes DEF Opens
<1>4. Members(c) = {}
  BY <1>2, GradeTypes DEF Members, PlacementTypeOK
<1>5. Members(c)' = {Len(place) + 1}
  BY <1>3, <1>4, MembersMove
<1>6. Count(c)' = grade'[c].occupied + Cardinality(Members(c)')
  BY DEF Count
<1>7. Cardinality({Len(place) + 1}) = 1
  BY FS_Singleton
<1>8. grade'[c].occupied = 0
  BY <1>2 DEF AddClass
<1>9. Cardinality(Members(c)') = 1
  BY <1>5, <1>7
<1>10. Count(c)' = 1
  BY <1>6, <1>8, <1>9
<1> QED
  BY <1>1, <1>2, <1>5, <1>10

(* A class was added for somebody. *)
NewHasMember == \A c \in DOMAIN grade : grade[c].new => Members(c) # {}

SectionsInv ==
    /\ PlacementTypeOK
    /\ CapacityKept
    /\ NewHasMember
    /\ NoIdleSection

(* What is added later does not change what suited whom before. *)
LEMMA SuitsKept ==
    ASSUME PlacementTypeOK, PlacementNext, NEW c \in DOMAIN grade, NEW i \in DOMAIN place, NEW d,
           Suits(d, i, c)'
    PROVE  Suits(d, i, c) /\ d \in DOMAIN grade
<1>1. /\ policy' = policy /\ students' = students
      /\ \A e \in DOMAIN grade : e \in DOMAIN grade' /\ grade'[e] = grade[e]
  BY OldClass DEF PlacementNext, LeaveUnplaced, Seat, OpenSection
<1>2. \A e \in DOMAIN grade' : e < c => e \in DOMAIN grade
  <2>1. PlacementTypeOK'
    BY PlacementTypeStep
  <2>2. DOMAIN grade' = 1..Len(grade') /\ Len(grade') \in Nat
    BY <2>1 DEF PlacementTypeOK
  <2> QED
    BY <2>2, GradeTypes
<1> DEFINE s == students[i]
           Fits1(e) == policy = "by_stream" => grade[e].stream = s.stream
                                                 /\ grade[e].group \in {Unset, s.group}
           own == {e \in DOMAIN grade : Fits1(e) /\ e < c /\ s.medium # Unset
                                                 /\ grade[e].medium = s.medium}
           Fits2(e) == policy' = "by_stream" => grade'[e].stream = students'[i].stream
                                                 /\ grade'[e].group \in {Unset, students'[i].group}
           own2 == {e \in DOMAIN grade' : Fits2(e) /\ e < c /\ students'[i].medium # Unset
                                                 /\ grade'[e].medium = students'[i].medium}
<1>3. Suits(d, i, c) <=>
        /\ d < c
        /\ d \in own \/ (own = {} /\ d \in DOMAIN grade /\ Fits1(d) /\ grade[d].medium = Unset)
  <2>1. {e \in OfStream(s) : e < c /\ s.medium # Unset /\ grade[e].medium = s.medium} = own
    BY DEF OfStream
  <2>2. d \in General(s) <=> d \in DOMAIN grade /\ Fits1(d) /\ grade[d].medium = Unset
    BY DEF General, OfStream
  <2> QED
    BY <2>1, <2>2 DEF Suits
<1>4. Suits(d, i, c)' <=>
        /\ d < c
        /\ d \in own2 \/ (own2 = {} /\ d \in DOMAIN grade' /\ Fits2(d) /\ grade'[d].medium = Unset)
  BY DEF Suits, General, OfStream
<1>5. own2 = own
  BY <1>1, <1>2
<1> QED
  BY <1>1, <1>2, <1>3, <1>4, <1>5

LEMMA AddedOnlyWhenFull ==
    ASSUME PlacementTypeOK, Opens, PlacementNext, NEW d \in DOMAIN grade,
           NEW i, i = Len(place) + 1, NEW c, c = Len(grade) + 1, Suits(d, i, c)'
    PROVE  Count(d) >= grade[d].capacity
<1>0. /\ policy' = policy /\ students' = students
      /\ DOMAIN grade' = DOMAIN grade \union {Len(grade) + 1}
      /\ \A e \in DOMAIN grade : grade'[e] = grade[e] /\ e < Len(grade) + 1
  BY OpensEffect, GradeTypes DEF Opens, Places
<1> DEFINE s == Current
           Fits2(e) == policy' = "by_stream" => grade'[e].stream = students'[i].stream
                                   /\ grade'[e].group \in {Unset, students'[i].group}
           own2 == {e \in DOMAIN grade' : Fits2(e) /\ e < c /\ students'[i].medium # Unset
                                   /\ grade'[e].medium = students'[i].medium}
<1>1. d \in own2 \/ (own2 = {} /\ d \in DOMAIN grade' /\ Fits2(d) /\ grade'[d].medium = Unset)
  BY DEF Suits, General, OfStream
<1>2. own2 = SameMedium(s)
  <2>1. Len(grade) + 1 \notin own2
    BY GradeTypes
  <2> QED
    BY <1>0, <2>1 DEF SameMedium, OfStream, Current
<1>3. Fits2(d) /\ grade'[d].medium = Unset => d \in General(s)
  BY <1>0 DEF General, OfStream, Current
<1>4. d \in Compatible(s)
  BY <1>1, <1>2, <1>3 DEF Compatible
<1>5. d \in Candidates(s)
  BY <1>4 DEF Candidates
<1>6. ~HasRoom(d)
  BY <1>5, NoneChosen DEF Opens, WithRoom
<1>7. Count(d) \in Nat /\ grade[d].capacity \in Nat
  BY CountsAreNumbers
<1> QED
  BY <1>6, <1>7 DEF HasRoom

LEMMA SectionsStep ==
    SectionsInv /\ [PlacementNext]_placementVars => SectionsInv'
<1> SUFFICES ASSUME SectionsInv, [PlacementNext]_placementVars
             PROVE  SectionsInv'
  OBVIOUS
<1>t. PlacementTypeOK /\ CapacityKept /\ NewHasMember /\ NoIdleSection
  BY DEF SectionsInv
<1>u. PlacementTypeOK'
  BY <1>t, PlacementTypeStep
<1>1. CASE UNCHANGED placementVars
  BY <1>1, <1>t, <1>u DEF placementVars, SectionsInv, CapacityKept, NewHasMember, NoIdleSection,
     Members, Count, Suits, OfStream, General
<1>2. CASE PlacementNext
  <2>1. CapacityKept'
    <3> SUFFICES ASSUME NEW c \in DOMAIN grade'
                 PROVE  Members(c)' = {} \/ Count(c)' <= grade'[c].capacity
      BY DEF CapacityKept
    <3>1. CASE c \in DOMAIN grade
      <4>1. Count(c) \in Nat /\ grade[c].capacity \in Nat /\ grade'[c] = grade[c]
        BY <1>2, <1>t, <3>1, CountsAreNumbers, OldClass
      <4>2. Members(c) = {} \/ Count(c) <= grade[c].capacity
        BY <1>t, <3>1 DEF CapacityKept
      <4>3. CASE Members(c)' = Members(c) /\ Count(c)' = Count(c)
        BY <4>1, <4>2, <4>3
      <4>4. CASE HasRoom(c) /\ Count(c)' = Count(c) + 1
        BY <4>1, <4>4 DEF HasRoom
      <4> QED
        BY <1>2, <1>t, <3>1, <4>3, <4>4, OldClass
    <3>2. CASE c \notin DOMAIN grade
      <4>1. grade'[c].capacity = DefaultCapacity /\ Count(c)' = 1
        BY <1>2, <1>t, <3>2, NewClass DEF AddClass
      <4> QED
        BY <4>1, CapacityAssumption
    <3> QED
      BY <3>1, <3>2
  <2>2. NewHasMember'
    <3> SUFFICES ASSUME NEW c \in DOMAIN grade', grade'[c].new
                 PROVE  Members(c)' # {}
      BY DEF NewHasMember
    <3>1. CASE c \in DOMAIN grade
      <4>1. grade'[c] = grade[c] /\ (Members(c)' = Members(c) \/ Members(c)' # {})
        BY <1>2, <1>t, <3>1, OldClass
      <4> QED
        BY <1>t, <3>1, <4>1 DEF NewHasMember
    <3>2. CASE c \notin DOMAIN grade
      BY <1>2, <1>t, <3>2, NewClass
    <3> QED
      BY <3>1, <3>2
  <2>3. NoIdleSection'
    <3> SUFFICES ASSUME NEW c \in DOMAIN grade', grade'[c].new,
                        NEW i \in Members(c)', \A j \in Members(c)' : i <= j,
                        NEW d \in DOMAIN grade', Suits(d, i, c)'
                 PROVE  Count(d)' >= grade'[d].capacity
      BY DEF NoIdleSection
    <3>1. CASE c \in DOMAIN grade
      <4>1. /\ grade'[c] = grade[c]
            /\ Members(c)' = Members(c) \/ Members(c)' = Members(c) \union {Len(place) + 1}
        BY <1>2, <1>t, <3>1, OldClass
      <4>2. Members(c) # {}
        BY <1>t, <3>1, <4>1 DEF NewHasMember
      <4>3. i \in Members(c) /\ \A j \in Members(c) : i <= j
        <5>1. Members(c) \subseteq 1..Len(place) /\ Len(place) \in Nat
          BY <1>t, MembersFinite, GradeTypes
        <5>2. i # Len(place) + 1
          BY <4>1, <4>2, <5>1
        <5> QED
          BY <4>1, <5>2
      <4>4. i \in DOMAIN place
        BY <1>t, <4>3, MembersFinite
      <4>5. Suits(d, i, c) /\ d \in DOMAIN grade
        BY <1>2, <1>t, <3>1, <4>4, SuitsKept
      <4>6. Count(d) >= grade[d].capacity
        BY <1>t, <3>1, <4>1, <4>3, <4>5 DEF NoIdleSection
      <4>7. grade'[d] = grade[d] /\ Count(d)' = Count(d)
        <5>1. ~HasRoom(d)
          BY <1>t, <4>5, <4>6, CountsAreNumbers DEF HasRoom
        <5> QED
          BY <1>2, <1>t, <4>5, <5>1, OldClass
      <4> QED
        BY <4>6, <4>7
    <3>2. CASE c \notin DOMAIN grade
      <4>1. Opens /\ c = Len(grade) + 1 /\ i = Len(place) + 1
        BY <1>2, <1>t, <3>2, NewClass
      <4>2. d \in DOMAIN grade
        <5>1. d < c
          BY DEF Suits
        <5>2. DOMAIN grade' = DOMAIN grade \union {Len(grade) + 1}
          BY <1>t, <4>1, OpensEffect
        <5> QED
          BY <4>1, <5>1, <5>2, <1>t, GradeTypes
      <4>3. Count(d) >= grade[d].capacity
        BY <1>2, <1>t, <4>1, <4>2, AddedOnlyWhenFull
      <4>4. Count(d) \in Nat /\ grade[d].capacity \in Nat
        BY <1>t, <4>2, CountsAreNumbers
      <4>5. ~HasRoom(d)
        BY <4>3, <4>4 DEF HasRoom
      <4>6. grade'[d] = grade[d] /\ Count(d)' = Count(d)
        BY <1>2, <1>t, <4>2, <4>5, OldClass
      <4> QED
        BY <4>3, <4>6
    <3> QED
      BY <3>1, <3>2
  <2> QED
    BY <1>u, <2>1, <2>2, <2>3 DEF SectionsInv
<1> QED
  BY <1>1, <1>2

LEMMA SectionsStart == PlacementInit => SectionsInv
<1> SUFFICES ASSUME PlacementInit
             PROVE  SectionsInv
  OBVIOUS
<1>1. PlacementTypeOK /\ place = <<>> /\ \A c \in DOMAIN grade : ~grade[c].new
  BY PlacementStarts
<1>2. \A c : Members(c) = {}
  BY <1>1 DEF Members
<1> QED
  BY <1>1, <1>2 DEF SectionsInv, CapacityKept, NewHasMember, NoIdleSection

(* No class is overfilled, and a section is added only when the classes     *)
(* that suit the student are full, in any grade and under every rule.       *)
THEOREM SectionsOpenWhenFull == PlacementSpec => []SectionsWhenFull
<1>1. SectionsInv => SectionsWhenFull
  BY DEF SectionsInv, SectionsWhenFull
<1> QED
  BY <1>1, SectionsStart, SectionsStep, PTL DEF PlacementSpec

-----------------------------------------------------------------------------
(* The rules.                                                               *)

LEMMA FixedInputs ==
    ASSUME PlacementNext
    PROVE  policy' = policy /\ spread' = spread /\ students' = students
BY DEF PlacementNext, LeaveUnplaced, Seat, OpenSection

LEMMA DomainsMove ==
    ASSUME PlacementTypeOK, PlacementNext
    PROVE  /\ DOMAIN place' = DOMAIN place \union {Len(place) + 1}
           /\ Len(place') = Len(place) + 1 /\ Len(place) + 1 \in DOMAIN students
           /\ Len(place) + 1 \notin DOMAIN place
           /\ \A i \in DOMAIN place : place'[i] = place[i]
           /\ \A c \in DOMAIN grade : c \in DOMAIN grade' /\ grade'[c] = grade[c]
<1>1. \E k \in Nat : Places(k)
  BY PlacementMoves, PlacedWhere DEF Leaves, Seats, Opens
<1> QED
  BY <1>1, PlacesEffect, OldClass, CurrentIsStudent DEF Places

(* A class that has room had room. *)
LEMMA RoomShrinks ==
    ASSUME PlacementTypeOK, PlacementNext, NEW c \in DOMAIN grade, HasRoom(c)'
    PROVE  HasRoom(c)
<1>1. Count(c) \in Nat /\ grade[c].capacity \in Nat
  BY CountsAreNumbers
<1>2. Count(c)' < grade'[c].capacity
  BY DEF HasRoom
<1> QED
  BY <1>1, <1>2, OldClass DEF HasRoom

LEMMA CandidatesKept ==
    ASSUME PlacementTypeOK, PlacementNext, NEW s, NEW c \in DOMAIN grade, c \in Candidates(s)'
    PROVE  c \in Candidates(s)
<1>1. policy' = policy /\ \A e \in DOMAIN grade : e \in DOMAIN grade' /\ grade'[e] = grade[e]
  BY FixedInputs, DomainsMove
<1>2. \A e \in DOMAIN grade : /\ e \in OfStream(s)' <=> e \in OfStream(s)
                              /\ e \in SameMedium(s)' <=> e \in SameMedium(s)
                              /\ e \in General(s)' <=> e \in General(s)
  BY <1>1 DEF OfStream, SameMedium, General
<1>3. SameMedium(s) \subseteq DOMAIN grade /\ General(s) \subseteq DOMAIN grade
  BY DEF OfStream, SameMedium, General
<1>4. CASE SameMedium(s) # {}
  <2>1. SameMedium(s)' # {}
    BY <1>2, <1>3, <1>4
  <2>2. c \in SameMedium(s)'
    BY <2>1 DEF Candidates, Compatible
  <2> QED
    BY <1>2, <1>4, <2>2 DEF Candidates, Compatible
<1>5. CASE SameMedium(s) = {} /\ General(s) # {}
  <2>1. General(s)' # {} /\ c \notin SameMedium(s)'
    BY <1>2, <1>3, <1>5
  <2>2. c \in General(s)'
    BY <2>1 DEF Candidates, Compatible
  <2> QED
    BY <1>2, <1>5, <2>2 DEF Candidates, Compatible
<1>6. CASE SameMedium(s) = {} /\ General(s) = {}
  BY <1>6 DEF Candidates, Compatible
<1> QED
  BY <1>4, <1>5, <1>6

(* The added class is one the student may go to. *)
LEMMA AddedFits ==
    ASSUME PlacementTypeOK, PlacementNext, Opens, NEW s, s = Current, NEW k, k = Len(grade) + 1
    PROVE  k \in Candidates(s)' /\ k \in OfStream(s)'
<1>1. k \in DOMAIN grade' /\ grade'[k] = AddClass(s) /\ policy' = policy
  BY OpensEffect, FixedInputs
<1>2. k \in OfStream(s)'
  BY <1>1 DEF OfStream, AddClass
<1>3. s.medium # Unset => k \in SameMedium(s)'
  BY <1>1, <1>2 DEF SameMedium, AddClass
<1>4. s.medium = Unset => SameMedium(s)' = {} /\ k \in General(s)'
  BY <1>1, <1>2 DEF SameMedium, General, AddClass
<1>5. k \in Compatible(s)'
  BY <1>3, <1>4 DEF Compatible
<1> QED
  BY <1>2, <1>5 DEF Candidates

-----------------------------------------------------------------------------
(* A returning student keeps the section, or is flagged.                    *)

ReturningFirst ==
    policy = "keep_section" /\ ~spread =>
        \A i, j \in DOMAIN students :
            i < j /\ students[i].section = 0 => students[j].section = 0

(* Whoever got no class of the section came when they were full of other    *)
(* returning students.                                                      *)
CameTooLate ==
    policy = "keep_section" /\ ~spread =>
        \A i \in DOMAIN place, c \in DOMAIN grade : Displaced(i, c) =>
            ~HasRoom(c) /\ \A j \in Members(c) : students[j].section # 0

LEMMA FirstExists ==
    ASSUME NEW S \in SUBSET Nat, IsFiniteSet(S), S # {}
    PROVE  First(S) # {}
<1> DEFINE R == {x \in S \X S : x[1] < x[2]}
<1>1. \A a, b \in S : <<a, b>> \in R <=> a < b
  OBVIOUS
<1> HIDE DEF R
<1>2. \A a, b, c \in S : <<a, b>> \in R /\ <<b, c>> \in R => <<a, c>> \in R
  BY <1>1
<1>5. \A a \in S : <<a, a>> \notin R
  BY <1>1
<1>3. PICK m \in S : \A a \in S : <<a, m>> \notin R
  BY <1>2, <1>5, MinimalExists
<1>4. ASSUME NEW a \in S
      PROVE  m <= a
  <2>1. ~(a < m)
    BY <1>1, <1>3
  <2> QED
    BY <2>1
<1> QED
  BY <1>4 DEF First

LEMMA KeepsOrFull ==
    ASSUME PlacementTypeOK, PlacementNext, policy = "keep_section", Current.section # 0,
           NEW c \in DOMAIN grade, c \in Candidates(Current), grade[c].section = Current.section,
           HasRoom(c)
    PROVE  \E k \in DOMAIN grade : grade[k].section = Current.section /\ Seats(k)
<1> DEFINE S == {e \in WithRoom(Candidates(Current)) : grade[e].section = Current.section}
<1>1. S \in SUBSET Nat /\ IsFiniteSet(S) /\ S # {}
  <2>1. IsFiniteSet(DOMAIN grade) /\ DOMAIN grade \subseteq Nat
    <3>1. \A n \in Nat : IsFiniteSet(1..n) /\ 1..n \subseteq Nat
      BY FS_Interval
    <3> QED
      BY <3>1, GradeTypes
  <2>2. S \subseteq DOMAIN grade
    BY ChosenInGrade DEF WithRoom
  <2>3. c \in S
    BY DEF WithRoom
  <2> QED
    BY <2>1, <2>2, <2>3, FS_Subset
<1>2. SameSection(Current) # {}
  BY <1>1, FirstExists DEF SameSection
<1>3. Chosen(Current) = SameSection(Current)
  BY <1>2 DEF Chosen, KeepSection
<1>4. \A k \in Chosen(Current) : k \in DOMAIN grade /\ grade[k].section = Current.section
  BY <1>3, ChosenInGrade DEF SameSection, First, WithRoom
<1>5. ~Unplaceable(Current)
  BY DEF Unplaceable
<1> QED
  BY <1>2, <1>3, <1>4, <1>5, PlacementMoves DEF Leaves, Opens, Seats

LEMMA CameTooLateStep ==
    ASSUME PlacementTypeOK, ReturningFirst, CameTooLate, PlacementNext
    PROVE  CameTooLate'
<1> SUFFICES ASSUME policy = "keep_section", ~spread,
                    NEW i \in DOMAIN place', NEW c \in DOMAIN grade', Displaced(i, c)'
             PROVE  ~HasRoom(c)' /\ \A j \in Members(c)' : students[j].section # 0
  BY FixedInputs DEF CameTooLate
<1>d. /\ students'[i].section # 0
      /\ place'[i].class \notin {0, c}
      /\ grade'[place'[i].class].section # students'[i].section
      /\ ~grade'[c].new /\ grade'[c].section = students'[i].section
      /\ c \in Candidates(students[i])'
  BY DEF Displaced
<1>1. c \in DOMAIN grade
  BY <1>d, NewClass DEF AddClass
<1>2. students' = students /\ grade'[c] = grade[c]
  BY <1>1, FixedInputs, OldClass
<1>3. c \in Candidates(students[i])
  <2> PICK s : s = students[i]
    OBVIOUS
  <2>1. c \in Candidates(s)'
    BY <1>d, <1>2 DEF Candidates, Compatible, SameMedium, General, OfStream
  <2> QED
    BY <1>1, <2>1, CandidatesKept
<1>4. ~HasRoom(c) /\ \A j \in Members(c) : students[j].section # 0
  <2>1. CASE i \in DOMAIN place
    <3>1. place'[i] = place[i] /\ place[i].class \in 0..Len(grade)
      BY <2>1, DomainsMove DEF PlacementTypeOK
    <3>2. place[i].class \in DOMAIN grade
      BY <1>d, <3>1, GradeTypes
    <3>3. Displaced(i, c)
      BY <1>d, <1>2, <1>3, <3>1, <3>2, OldClass DEF Displaced
    <3> QED
      BY <1>1, <2>1, <3>3 DEF CameTooLate
  <2>2. CASE i = Len(place) + 1
    <3>1. students[i] = Current
      BY <2>2 DEF Current
    <3>2. ASSUME HasRoom(c)
          PROVE  FALSE
      <4>1. PICK k \in DOMAIN grade : grade[k].section = Current.section /\ Seats(k)
        BY <1>1, <1>2, <1>3, <1>d, <3>1, <3>2, KeepsOrFull
      <4>2. place'[i].class = k /\ grade' = grade
        BY <2>2, <4>1, PlacesEffect, PlacedWhere DEF Seats
      <4> QED
        BY <1>d, <1>2, <3>1, <4>1, <4>2
    <3>3. ASSUME NEW j \in Members(c)
          PROVE  students[j].section # 0
      <4>1. j \in DOMAIN place
        BY <3>3, MembersFinite
      <4>2. j \in DOMAIN students /\ i \in DOMAIN students /\ j < i
        BY <2>2, <4>1, GradeTypes, DomainsMove
      <4> QED
        BY <1>2, <1>d, <4>2 DEF ReturningFirst
    <3> QED
      BY <3>2, <3>3
  <2> QED
    BY <2>1, <2>2, DomainsMove
<1>5. Members(c)' = Members(c) /\ ~HasRoom(c)'
  BY <1>1, <1>4, OldClass, RoomShrinks
<1> QED
  BY <1>4, <1>5

-----------------------------------------------------------------------------
(* Groups stay together, streams and mediums are kept.                      *)

ByChoice == policy \in {"by_subject_choice", "by_stream"}
Key(i) == GroupKey(policy, students[i])

GroupsFollow == ByChoice => ByGroup(policy, students)

(* Of the group that is being placed, the members' class that has room has  *)
(* most of the choice, so the next member joins it.                         *)
Leads(c, s) ==
    /\ c \in Candidates(s)
    /\ \A d \in WithRoom(Candidates(s)) \ {c} : Same(c, s) > Same(d, s)

GroupLeads ==
    ByChoice =>
        \A i \in DOMAIN place, c \in DOMAIN grade, s \in Student :
            /\ place[i].class = c /\ students[i] = s
            /\ Key(i) = Key(Len(place)) /\ HasRoom(c)
          => Leads(c, s)

LEMMA SameKey ==
    ASSUME ByChoice, NEW s, NEW t, GroupKey(policy, s) = GroupKey(policy, t)
    PROVE  /\ Candidates(s) = Candidates(t)
           /\ s.choice = t.choice
           /\ \A c : Same(c, s) = Same(c, t)
<1>1. /\ s.medium = t.medium /\ s.choice = t.choice
      /\ policy = "by_stream" => s.stream = t.stream /\ s.group = t.group
  BY DEF GroupKey, ByChoice
<1>2. OfStream(s) = OfStream(t)
  BY <1>1 DEF OfStream
<1>3. SameMedium(s) = SameMedium(t) /\ General(s) = General(t)
  BY <1>1, <1>2 DEF SameMedium, General
<1> QED
  BY <1>1, <1>3 DEF Candidates, Compatible, Same

(* Whoever is of the next student's group is of the last one's. *)
LEMMA GroupsAreRuns ==
    ASSUME PlacementTypeOK, GroupsFollow, ByChoice, Len(place) < Len(students),
           NEW i \in DOMAIN place, Key(i) = Key(Len(place) + 1)
    PROVE  Key(i) = Key(Len(place))
<1> DEFINE Alike == {j \in DOMAIN students : Key(j) = Key(i)}
<1>1. i \in DOMAIN students /\ Len(place) + 1 \in DOMAIN students /\ i < Len(place) + 1
  BY GradeTypes, CurrentIsStudent
<1>2. Len(place) + 1 \in Alike
  BY <1>1
<1>3. i..(Len(place) + 1) \subseteq Alike
  BY <1>1, <1>2 DEF GroupsFollow, ByGroup, Key
<1>4. Len(place) \in i..(Len(place) + 1)
  BY GradeTypes
<1> QED
  BY <1>3, <1>4

LEMMA PlacedClasses ==
    ASSUME PlacementTypeOK, NEW i \in DOMAIN place, place[i].class # 0
    PROVE  place[i].class \in DOMAIN grade
BY GradeTypes DEF PlacementTypeOK

(* The next of a group joins the class of the group that has room. *)
LEMMA JoinsGroup ==
    ASSUME PlacementTypeOK, GroupsFollow, GroupLeads, ByChoice, PlacementNext,
           NEW i \in DOMAIN place, Key(i) = Key(Len(place) + 1),
           place[i].class # 0, HasRoom(place[i].class)
    PROVE  /\ Leads(place[i].class, Current)
           /\ ~Opens
           /\ \A k : Seats(k) => k = place[i].class
<1> DEFINE c == place[i].class
<1>1. Len(place) < Len(students)
  BY DEF PlacementNext
<1>2. Key(i) = Key(Len(place))
  BY <1>1, GroupsAreRuns
<1>3. Leads(c, students[i])
  BY <1>2, PlacedClasses, GradeTypes DEF GroupLeads
<1>4. GroupKey(policy, students[i]) = GroupKey(policy, Current)
  BY DEF Key, Current
<1>5. Leads(c, Current)
  BY <1>3, <1>4, SameKey DEF Leads
<1>6. c \in WithRoom(Candidates(Current))
  BY <1>5 DEF Leads, WithRoom
<1>7. ~Opens
  BY <1>6, NoneChosen DEF Opens
<1>8. ASSUME NEW k, Seats(k), k # c
      PROVE  FALSE
  <2>1. k \in WithMostSameChoice(Candidates(Current), Current)
    BY <1>8 DEF Seats, Chosen, ByChoice
  <2>2. Gathers(k, c, Current) /\ k \in WithRoom(Candidates(Current))
    BY <1>6, <1>8, <2>1 DEF WithMostSameChoice
  <2>3. Same(c, Current) > Same(k, Current)
    BY <1>5, <1>8, <2>2 DEF Leads
  <2>4. Same(c, Current) \in Nat /\ Same(k, Current) \in Nat
    BY CountsAreNumbers
  <2> QED
    BY <2>2, <2>3, <2>4 DEF Gathers
<1> QED
  BY <1>5, <1>7, <1>8

(* Whoever is seated makes the class lead. *)
LEMMA SeatLeads ==
    ASSUME PlacementTypeOK, ByChoice, PlacementNext, NEW k, Seats(k), NEW s \in Student,
           s = Current
    PROVE  Leads(k, s)'
<1>1. /\ Places(k) /\ grade' = grade /\ k \in Nat /\ k \in Candidates(s)
      /\ policy' = policy
  BY PlacedWhere, FixedInputs DEF Seats
<1>2. k \in WithMostSameChoice(Candidates(s), s)
  BY DEF Seats, Chosen, ByChoice
<1>3. Candidates(s)' = Candidates(s)
  BY <1>1 DEF Candidates, Compatible, SameMedium, General, OfStream
<1>4. Same(k, s)' = Same(k, s) + 1
  BY <1>1, SameMoves
<1>5. ASSUME NEW d \in WithRoom(Candidates(s))' \ {k}
      PROVE  Same(k, s)' > Same(d, s)'
  <2>1. d \in Candidates(s) /\ HasRoom(d)'
    BY <1>3, <1>5 DEF WithRoom
  <2>2. d \in DOMAIN grade
    BY <2>1, ChosenInGrade
  <2>3. HasRoom(d)
    BY <2>1, <2>2, RoomShrinks
  <2>4. Gathers(k, d, s)
    BY <1>2, <1>5, <2>1, <2>3 DEF WithMostSameChoice, WithRoom
  <2>5. Same(k, s) \in Nat /\ Same(d, s) \in Nat
    BY CountsAreNumbers
  <2>6. Same(d, s)' = Same(d, s)
    BY <1>1, <1>5, SameMoves
  <2> QED
    BY <1>4, <2>4, <2>5, <2>6 DEF Gathers
<1> QED
  BY <1>1, <1>3, <1>5 DEF Leads

LEMMA OpenLeads ==
    ASSUME PlacementTypeOK, ByChoice, PlacementNext, Opens, NEW s \in Student, s = Current,
           NEW k, k = Len(grade) + 1
    PROVE  Leads(k, s)'
<1>1. k \in Candidates(s)'
  BY AddedFits
<1>2. ASSUME NEW d \in WithRoom(Candidates(s))' \ {k}
      PROVE  FALSE
  <2>1. d \in Candidates(s)' /\ HasRoom(d)' /\ d \in DOMAIN grade'
    <3>1. d \in Candidates(s)' /\ HasRoom(d)'
      BY <1>2 DEF WithRoom
    <3> QED
      BY <3>1 DEF Candidates, Compatible, SameMedium, General, OfStream
  <2>2. d \in DOMAIN grade
    BY <1>2, <2>1, OpensEffect
  <2>3. d \in Candidates(s) /\ HasRoom(d)
    BY <2>1, <2>2, CandidatesKept, RoomShrinks
  <2> QED
    BY <2>3, NoneChosen DEF Opens, WithRoom
<1> QED
  BY <1>1, <1>2 DEF Leads

LEMMA GroupLeadsStep ==
    ASSUME PlacementTypeOK, GroupsFollow, GroupLeads, PlacementNext
    PROVE  GroupLeads'
<1>0. /\ policy' = policy /\ students' = students /\ Len(place') = Len(place) + 1
      /\ Len(place) < Len(students)
  BY FixedInputs, DomainsMove DEF PlacementNext
<1> SUFFICES ASSUME ByChoice, NEW i \in DOMAIN place', NEW c \in DOMAIN grade', NEW s \in Student,
                    place'[i].class = c, students[i] = s,
                    Key(i) = Key(Len(place) + 1), HasRoom(c)'
             PROVE  Leads(c, s)'
  BY <1>0 DEF GroupLeads, ByChoice, Key
<1>1. CASE i \in DOMAIN place
  <2>1. place[i].class = c
    BY <1>1, DomainsMove
  <2>2. c \in DOMAIN grade /\ c # 0
    <3>1. c \in 0..Len(grade)
      BY <1>1, <2>1 DEF PlacementTypeOK
    <3>2. c # 0
      <4>1. PlacementTypeOK'
        BY PlacementTypeStep
      <4> QED
        BY <4>1 DEF PlacementTypeOK
    <3> QED
      BY <3>1, <3>2, GradeTypes
  <2>3. HasRoom(c)
    BY <2>2, RoomShrinks
  <2>4. Leads(c, Current) /\ ~Opens /\ \A k : Seats(k) => k = c
    BY <1>1, <2>1, <2>2, <2>3, JoinsGroup
  <2>5. PICK t \in Student : t = Current
    BY <1>0, CurrentIsStudent
  <2>6. GroupKey(policy, s) = GroupKey(policy, t)
    BY <2>5 DEF Key, Current
  <2>7. Leads(c, t)'
    <3>1. CASE Leaves
      <4>1. Places(0) /\ grade' = grade
        BY <3>1 DEF Leaves
      <4>2. Candidates(t)' = Candidates(t)
        BY <1>0, <4>1 DEF Candidates, Compatible, SameMedium, General, OfStream
      <4>3. \A d \in DOMAIN grade : Same(d, t)' = Same(d, t)
        BY <4>1, GradeTypes, SameMoves
      <4>4. \A d \in WithRoom(Candidates(t))' : d \in WithRoom(Candidates(t)) /\ d \in DOMAIN grade
        BY <4>2, ChosenInGrade, RoomShrinks DEF WithRoom
      <4>5. Leads(c, t)
        BY <2>4, <2>5
      <4> QED
        BY <2>2, <4>2, <4>3, <4>4, <4>5 DEF Leads
    <3>2. ASSUME NEW k, Seats(k)
          PROVE  Leads(c, t)'
      BY <2>4, <2>5, <3>2, SeatLeads
    <3> QED
      BY <2>4, <3>1, <3>2, PlacementMoves
  <2>8. ByChoice' /\ GroupKey(policy, s)' = GroupKey(policy, t)'
    BY <1>0, <2>6 DEF ByChoice, GroupKey
  <2>9. /\ Candidates(s)' = Candidates(t)' /\ \A d : Same(d, s)' = Same(d, t)'
    <3>1. /\ s.medium = t.medium /\ s.choice = t.choice
          /\ policy' = "by_stream" => s.stream = t.stream /\ s.group = t.group
      BY <1>0, <2>6 DEF GroupKey, ByChoice
    <3>2. OfStream(s)' = OfStream(t)'
      BY <3>1 DEF OfStream
    <3>3. SameMedium(s)' = SameMedium(t)' /\ General(s)' = General(t)'
      BY <3>1, <3>2 DEF SameMedium, General
    <3> QED
      BY <3>1, <3>3 DEF Candidates, Compatible, Same
  <2> QED
    BY <2>7, <2>9 DEF Leads, WithRoom
<1>2. CASE i = Len(place) + 1
  <2>1. s = Current
    BY <1>2 DEF Current
  <2>2. CASE Leaves
    <3>1. c = 0
      BY <1>2, <2>2, PlacesEffect DEF Leaves
    <3>2. PlacementTypeOK'
      BY PlacementTypeStep
    <3> QED
      BY <3>1, <3>2 DEF PlacementTypeOK
  <2>3. ASSUME NEW k, Seats(k)
        PROVE  Leads(c, s)'
    <3>1. c = k
      BY <1>2, <2>3, PlacesEffect, PlacedWhere DEF Seats
    <3> QED
      BY <2>1, <2>3, <3>1, SeatLeads
  <2>4. CASE Opens
    <3>1. c = Len(grade) + 1
      BY <1>2, <2>4, PlacesEffect, PlacedWhere DEF Opens
    <3> QED
      BY <2>1, <2>4, <3>1, OpenLeads
  <2> QED
    BY <2>2, <2>3, <2>4, PlacementMoves
<1> QED
  BY <1>1, <1>2, DomainsMove

LEMMA ChoiceTogetherStep ==
    ASSUME PlacementTypeOK, GroupsFollow, GroupLeads, ChoiceTogether, PlacementNext
    PROVE  ChoiceTogether'
<1>0. policy' = policy /\ students' = students /\ PlacementTypeOK'
  BY FixedInputs, PlacementTypeStep
<1>a. SUFFICES ASSUME ByChoice,
                      NEW i \in DOMAIN place', NEW j \in DOMAIN place', Key(i) = Key(j),
                      NEW c, NEW d, c = place'[i].class, d = place'[j].class, c # 0, d # 0,
                      HasRoom(c)', HasRoom(d)'
               PROVE  c = d
  <2> SUFFICES ASSUME ByChoice, NEW i \in DOMAIN place', NEW j \in DOMAIN place', Key(i) = Key(j),
                      place'[i].class # 0, place'[j].class # 0,
                      HasRoom(place[i].class)', HasRoom(place[j].class)'
               PROVE  place'[i].class = place'[j].class
    BY <1>0 DEF ChoiceTogether, ByChoice, Key
  <2> PICK c, d : c = place'[i].class /\ d = place'[j].class
    OBVIOUS
  <2>1. HasRoom(c)' /\ HasRoom(d)'
    BY DEF HasRoom, Count, Members
  <2> QED
    BY <2>1, <1>a
<1>b. \A l \in DOMAIN place : place'[l] = place[l] /\ (place[l].class # 0 =>
                                                           place[l].class \in DOMAIN grade)
  BY DomainsMove, PlacedClasses
<1>1. CASE i \in DOMAIN place /\ j \in DOMAIN place
  <2>1. c \in DOMAIN grade /\ d \in DOMAIN grade /\ c = place[i].class /\ d = place[j].class
    BY <1>a, <1>b, <1>1
  <2>2. HasRoom(c) /\ HasRoom(d)
    BY <1>a, <2>1, RoomShrinks
  <2> QED
    BY <1>a, <1>1, <2>1, <2>2 DEF ChoiceTogether, ByChoice, Key
<1>2. ASSUME NEW l \in DOMAIN place, Key(l) = Key(Len(place) + 1), NEW e, e = place'[l].class,
             e # 0, HasRoom(e)', place'[Len(place) + 1].class # 0
      PROVE  place'[Len(place) + 1].class = e
  <2>1. e \in DOMAIN grade /\ e = place[l].class
    BY <1>b, <1>2
  <2>2. HasRoom(e)
    BY <1>2, <2>1, RoomShrinks
  <2>3. ~Opens /\ \A k : Seats(k) => k = e
    BY <1>a, <1>2, <2>1, <2>2, JoinsGroup
  <2>4. ~Leaves
    BY <1>2, PlacesEffect DEF Leaves
  <2>5. PICK k : Seats(k)
    BY <2>3, <2>4, PlacementMoves
  <2>6. place'[Len(place) + 1].class = k
    BY <2>5, PlacesEffect, PlacedWhere DEF Seats
  <2> QED
    BY <2>3, <2>5, <2>6
<1>3. CASE i \in DOMAIN place /\ j = Len(place) + 1
  BY <1>a, <1>2, <1>3
<1>4. CASE j \in DOMAIN place /\ i = Len(place) + 1
  BY <1>a, <1>2, <1>4
<1>5. CASE i = Len(place) + 1 /\ j = Len(place) + 1
  BY <1>a, <1>5
<1> QED
  BY <1>1, <1>3, <1>4, <1>5, DomainsMove

(* Who is flagged. *)
LEMMA Warns ==
    ASSUME PlacementTypeOK, PlacementNext,
           Fallback(Current) \/ place'[Len(place) + 1].class \notin DOMAIN grade
    PROVE  place'[Len(place) + 1].warned
<1>1. place \in Seq(Decision) /\ Len(place) \in Nat
  BY GradeTypes DEF PlacementTypeOK
<1>2. \A x : Append(place, x)[Len(place) + 1] = x
  BY <1>1
<1>3. LeaveUnplaced(Current) \/ Seat(Current) \/ OpenSection(Current)
  BY DEF PlacementNext, Current
<1>4. CASE LeaveUnplaced(Current) \/ OpenSection(Current)
  BY <1>2, <1>4 DEF LeaveUnplaced, OpenSection, Decide
<1>5. CASE Seat(Current)
  <2>1. PICK k \in Chosen(Current) : Decide(k, Fallback(Current)
            \/ (policy = "by_subject_choice" /\ Current.choice = Unset))
    BY <1>5 DEF Seat
  <2>2. k \in DOMAIN grade
    BY <2>1, ChosenInGrade DEF WithRoom
  <2> DEFINE w == Fallback(Current) \/ (policy = "by_subject_choice" /\ Current.choice = Unset)
             x == [class |-> k, warned |-> w]
  <2>3. place' = Append(place, x)
    BY <2>1 DEF Decide
  <2> HIDE DEF x
  <2>4. place'[Len(place) + 1] = x
    BY <1>2, <2>3
  <2>5. x.class = k /\ x.warned = w
    BY DEF x
  <2>6. w = TRUE
    BY <2>2, <2>4, <2>5
  <2> QED
    BY <2>4, <2>5, <2>6
<1> QED
  BY <1>3, <1>4, <1>5

LEMMA StreamKeptStep ==
    ASSUME PlacementTypeOK, StreamKept, PlacementNext
    PROVE  StreamKept'
<1>0. policy' = policy /\ students' = students
  BY FixedInputs
<1> DEFINE Right(c, s) == c \in DOMAIN grade' /\ grade'[c].stream = s.stream
                                /\ grade'[c].group \in {Unset, s.group}
<1> SUFFICES ASSUME policy = "by_stream", NEW i \in DOMAIN place'
             PROVE  IF place'[i].class = 0 THEN place'[i].warned
                                           ELSE Right(place'[i].class, students[i])
  BY <1>0 DEF StreamKept, OfStream
<1>1. CASE i \in DOMAIN place
  BY <1>1, DomainsMove DEF StreamKept, OfStream
<1>2. CASE i = Len(place) + 1
  <2>1. students[i] = Current
    BY <1>2 DEF Current
  <2>2. CASE Leaves
    <3>1. place'[i].class = 0
      BY <1>2, <2>2, PlacesEffect DEF Leaves
    <3>2. 0 \notin DOMAIN grade
      BY GradeTypes
    <3> QED
      BY <1>2, <3>1, <3>2, Warns
  <2>3. ASSUME NEW k, Seats(k)
        PROVE  place'[i].class # 0 /\ Right(place'[i].class, students[i])
    <3>1. place'[i].class = k /\ k \in DOMAIN grade /\ k \in Candidates(Current) /\ grade' = grade
      BY <1>2, <2>3, PlacesEffect, PlacedWhere DEF Seats
    <3>2. Compatible(Current) # {}
      BY <2>3 DEF Seats, Unplaceable
    <3>3. k \in OfStream(Current)
      BY <3>1, <3>2 DEF Candidates, Compatible, SameMedium, General
    <3> QED
      BY <2>1, <3>1, <3>3, GradeTypes DEF OfStream
  <2>4. CASE Opens
    <3>1. place'[i].class = Len(grade) + 1
      BY <1>2, <2>4, PlacesEffect, PlacedWhere DEF Opens
    <3>2. Right(Len(grade) + 1, Current)
      BY <2>4, OpensEffect DEF AddClass
    <3> QED
      BY <2>1, <3>1, <3>2, GradeTypes
  <2> QED
    BY <2>2, <2>3, <2>4, PlacementMoves
<1> QED
  BY <1>1, <1>2, DomainsMove

LEMMA MediumFlaggedStep ==
    ASSUME PlacementTypeOK, MediumFlagged, PlacementNext
    PROVE  MediumFlagged'
<1>0. students' = students
  BY FixedInputs
<1> SUFFICES ASSUME NEW i \in DOMAIN place', place'[i].class # 0, students[i].medium # Unset,
                    grade'[place'[i].class].medium = Unset
             PROVE  place'[i].warned
  BY <1>0 DEF MediumFlagged
<1>1. CASE i \in DOMAIN place
  <2>1. place'[i] = place[i] /\ place[i].class \in DOMAIN grade
    BY <1>1, DomainsMove, PlacedClasses
  <2> QED
    BY <1>1, <2>1, DomainsMove DEF MediumFlagged
<1>2. CASE i = Len(place) + 1
  <2>1. students[i] = Current
    BY <1>2 DEF Current
  <2>2. CASE place'[i].class \notin DOMAIN grade
    BY <1>2, <2>2, Warns
  <2>3. CASE place'[i].class \in DOMAIN grade
    <3>1. ~Leaves /\ ~Opens
      BY <1>2, <2>3, PlacesEffect, PlacedWhere, GradeTypes DEF Leaves, Opens
    <3>2. PICK k : Seats(k)
      BY <3>1, PlacementMoves
    <3>3. place'[i].class = k /\ k \in DOMAIN grade /\ k \in Candidates(Current) /\ grade' = grade
      BY <1>2, <3>2, PlacesEffect, PlacedWhere DEF Seats
    <3>4. Current.medium # Unset /\ grade[k].medium = Unset
      BY <2>1, <3>3
    <3>5. SameMedium(Current) = {} \/ k \notin Compatible(Current)
      BY <3>4 DEF Compatible, SameMedium
    <3>6. CASE Compatible(Current) = {}
      <4>1. General(Current) = {}
        BY <3>6 DEF Compatible
      <4>2. policy = "by_stream" => Unplaceable(Current)
        BY <3>6 DEF Unplaceable
      <4>3. policy # "by_stream"
        BY <3>2, <4>2 DEF Seats
      <4> QED
        BY <3>3, <3>4, <4>1, <4>3 DEF General, OfStream
    <3>7. CASE Compatible(Current) # {}
      <4>1. k \in Compatible(Current)
        BY <3>3, <3>7 DEF Candidates
      <4>2. SameMedium(Current) = {} /\ General(Current) # {}
        BY <3>5, <4>1 DEF Compatible
      <4>3. Fallback(Current)
        BY <3>4, <4>2 DEF Fallback
      <4> QED
        BY <1>2, <4>3, Warns
    <3> QED
      BY <3>6, <3>7
  <2> QED
    BY <2>2, <2>3
<1> QED
  BY <1>1, <1>2, DomainsMove

RulesInv ==
    /\ PlacementTypeOK
    /\ ReturningFirst
    /\ CameTooLate
    /\ GroupsFollow
    /\ GroupLeads
    /\ ChoiceTogether
    /\ StreamKept
    /\ MediumFlagged

LEMMA RulesStart == PlacementInit => RulesInv
<1> SUFFICES ASSUME PlacementInit
             PROVE  RulesInv
  OBVIOUS
<1>1. PlacementTypeOK /\ place = <<>> /\ OrderStudents(policy, spread, students)
  BY PlacementStarts
<1>2. ReturningFirst /\ GroupsFollow
  BY <1>1 DEF ReturningFirst, GroupsFollow, ByChoice, OrderStudents
<1> QED
  BY <1>1, <1>2 DEF RulesInv, CameTooLate, GroupLeads, ChoiceTogether, StreamKept, MediumFlagged

LEMMA RulesStep ==
    RulesInv /\ [PlacementNext]_placementVars => RulesInv'
<1> SUFFICES ASSUME RulesInv, [PlacementNext]_placementVars
             PROVE  RulesInv'
  OBVIOUS
<1>1. CASE UNCHANGED placementVars
  <2>0. UNCHANGED <<policy, spread, students, grade, place>>
    BY <1>1 DEF placementVars
  <2>1. PlacementTypeOK' /\ StreamKept' /\ MediumFlagged'
    BY <2>0 DEF RulesInv, PlacementTypeOK, StreamKept, MediumFlagged, OfStream
  <2>2. ReturningFirst' /\ GroupsFollow'
    BY <2>0 DEF RulesInv, ReturningFirst, GroupsFollow, ByChoice, ByGroup
  <2>3. CameTooLate'
    BY <2>0 DEF RulesInv, CameTooLate, Displaced, HasRoom, Count, Members, Candidates, Compatible,
       SameMedium, General, OfStream
  <2>4. GroupLeads'
    <3>1. \A c : HasRoom(c)' <=> HasRoom(c)
      BY <2>0 DEF HasRoom, Count, Members
    <3>2. \A q : Candidates(q)' = Candidates(q)
      BY <2>0 DEF Candidates, Compatible, SameMedium, General, OfStream
    <3>3. \A c, q : Same(c, q)' = Same(c, q)
      BY <2>0 DEF Same, Members
    <3>4. \A c, q : Leads(c, q)' <=> Leads(c, q)
      BY <3>1, <3>2, <3>3 DEF Leads, WithRoom
    <3>5. (\A i : Key(i)' = Key(i)) /\ (ByChoice' <=> ByChoice)
      BY <2>0 DEF Key, ByChoice
    <3>6. GroupLeads
      BY DEF RulesInv
    <3> QED
      BY <2>0, <3>1, <3>4, <3>5, <3>6 DEF GroupLeads
  <2>5. ChoiceTogether'
    BY <2>0 DEF RulesInv, ChoiceTogether, HasRoom, Count, Members
  <2> QED
    BY <2>1, <2>2, <2>3, <2>4, <2>5 DEF RulesInv
<1>2. CASE PlacementNext
  <2>1. PlacementTypeOK'
    BY <1>2, PlacementTypeStep DEF RulesInv
  <2>2. ReturningFirst' /\ GroupsFollow'
    BY <1>2, FixedInputs DEF RulesInv, ReturningFirst, GroupsFollow, ByChoice, ByGroup
  <2>3. CameTooLate' /\ GroupLeads' /\ ChoiceTogether' /\ StreamKept' /\ MediumFlagged'
    BY <1>2, CameTooLateStep, GroupLeadsStep, ChoiceTogetherStep, StreamKeptStep,
       MediumFlaggedStep DEF RulesInv
  <2> QED
    BY <2>1, <2>2, <2>3 DEF RulesInv
<1> QED
  BY <1>1, <1>2

(* Returning students come before admissions, streams, mediums and choices  *)
(* are kept as far as there is room, and who could not be served is flagged. *)
THEOREM RulesStayKept == PlacementSpec => []RulesKept
<1>1. RulesInv => RulesKept
  BY DEF RulesInv, RulesKept, AdmissionsWait, NotForAdmissions, CameTooLate
<1> QED
  BY <1>1, RulesStart, RulesStep, PTL DEF PlacementSpec

-----------------------------------------------------------------------------
(* Balanced classes.                                                        *)

(* While no section was added, alike classes are all candidates, and        *)
(* everybody is seated.                                                     *)
LEMMA UniformStep ==
    ASSUME PlacementTypeOK, PlacementNext, policy = "balanced_reshuffle", Uniform'
    PROVE  /\ Uniform /\ grade' = grade
           /\ \E k : Seats(k)
           /\ Candidates(Current) = DOMAIN grade
<1>1. ~Leaves
  BY DEF Leaves, Unplaceable
<1>2. ~Opens
  <2> SUFFICES ASSUME Opens
               PROVE  FALSE
    OBVIOUS
  <2>1. Len(grade) + 1 \in DOMAIN grade' /\ grade'[Len(grade) + 1] = AddClass(Current)
    BY OpensEffect
  <2>2. grade'[Len(grade) + 1].new
    BY <2>1 DEF AddClass
  <2> QED
    BY <2>1, <2>2 DEF Uniform
<1>3. PICK k : Seats(k)
  BY <1>1, <1>2, PlacementMoves
<1>4. grade' = grade
  BY <1>3 DEF Seats
<1>5. Uniform
  BY <1>4 DEF Uniform
<1>6. OfStream(Current) = DOMAIN grade
  BY DEF OfStream
<1>7. /\ SameMedium(Current) \in {{}, DOMAIN grade} /\ General(Current) \in {{}, DOMAIN grade}
  BY <1>5, <1>6 DEF Uniform, SameMedium, General
<1>8. Candidates(Current) = DOMAIN grade
  BY <1>7 DEF Candidates, Compatible
<1> QED
  BY <1>3, <1>4, <1>5, <1>8

AllRecorded == \A i \in DOMAIN students : students[i].gender # Unset

OtherGenders(c, g) == Cardinality({i \in Members(c) : students[i].gender # g})

LEMMA TwoParts ==
    ASSUME NEW M, NEW A, NEW B, IsFiniteSet(A), IsFiniteSet(B),
           M = A \union B, A \intersect B = {}
    PROVE  Cardinality(M) = Cardinality(A) + Cardinality(B)
<1>1. Cardinality(M) = Cardinality(A) + Cardinality(B) - Cardinality(A \intersect B)
  BY FS_Union
<1>2. Cardinality(A \intersect B) = 0
  BY FS_EmptySet
<1>3. Cardinality(A) \in Nat /\ Cardinality(B) \in Nat
  BY FS_CardinalityType
<1> QED
  BY <1>1, <1>2, <1>3

LEMMA TwoGenders ==
    ASSUME PlacementTypeOK, Uniform, AllRecorded, NEW g \in Genders
    PROVE  /\ \A c \in DOMAIN grade :
                 OtherGenders(c, g) \in Nat /\ Count(c) = Gender(c, g) + OtherGenders(c, g)
           /\ \/ \A c : OtherGenders(c, g) = 0
              \/ \E h \in Genders : \A c : OtherGenders(c, g) = Gender(c, h)
<1>1. \A i \in DOMAIN students : students[i].gender \in Genders
  BY GradeTypes DEF AllRecorded, Student
<1>2. ASSUME NEW c \in DOMAIN grade
      PROVE  OtherGenders(c, g) \in Nat /\ Count(c) = Gender(c, g) + OtherGenders(c, g)
  <2> DEFINE A == {i \in Members(c) : students[i].gender = g}
             B == {i \in Members(c) : students[i].gender # g}
  <2>1. IsFiniteSet(A) /\ IsFiniteSet(B) /\ Cardinality(A) \in Nat /\ Cardinality(B) \in Nat
    BY PartFinite
  <2>2. A \union B = Members(c) /\ A \intersect B = {}
    OBVIOUS
  <2>5. grade[c].occupied = 0
    BY DEF Uniform
  <2>6. Gender(c, g) = Cardinality(A) /\ OtherGenders(c, g) = Cardinality(B)
    BY DEF Gender, OtherGenders
  <2>7. Count(c) = 0 + Cardinality(Members(c))
    BY <2>5 DEF Count
  <2>8. Cardinality(Members(c)) = Cardinality(A) + Cardinality(B)
    BY <2>1, <2>2, TwoParts
  <2> DEFINE x == Cardinality(A)
             y == Cardinality(B)
             m == Cardinality(Members(c))
  <2>9. /\ x \in Nat /\ y \in Nat /\ m = x + y
        /\ Gender(c, g) = x /\ OtherGenders(c, g) = y /\ Count(c) = 0 + m
    BY <2>1, <2>6, <2>7, <2>8
  <2> HIDE DEF x, y, m
  <2> QED
    BY <2>9
<1>3. CASE \E h \in Genders : h # g
  <2>1. PICK h \in Genders : h # g
    BY <1>3
  <2>2. \A f \in Genders : f = g \/ f = h
    BY <2>1, GendersAssumption
  <2>3. \A i \in DOMAIN students : students[i].gender # g <=> students[i].gender = h
    BY <1>1, <2>1, <2>2
  <2>4. ASSUME NEW c
        PROVE  OtherGenders(c, g) = Gender(c, h)
    <3>1. Members(c) \subseteq DOMAIN students
      BY MembersFinite, GradeTypes
    <3>2. {i \in Members(c) : students[i].gender # g} = {i \in Members(c) : students[i].gender = h}
      BY <2>3, <3>1
    <3> QED
      BY <3>2 DEF OtherGenders, Gender
  <2> QED
    BY <1>2, <2>4
<1>4. CASE ~\E h \in Genders : h # g
  <2>1. ASSUME NEW c
        PROVE  OtherGenders(c, g) = 0
    <3>1. Members(c) \subseteq DOMAIN students
      BY MembersFinite, GradeTypes
    <3>2. {i \in Members(c) : students[i].gender # g} = {}
      BY <1>1, <1>4, <3>1
    <3> QED
      BY <3>2, FS_EmptySet DEF OtherGenders
  <2> QED
    BY <1>2, <2>1
<1> QED
  BY <1>3, <1>4

(* The class that is chosen has fewest students and, of those, fewest of    *)
(* the gender.                                                              *)
LEMMA ChoosesLeast ==
    ASSUME PlacementTypeOK, Uniform, policy = "balanced_reshuffle", ~spread,
           Candidates(Current) = DOMAIN grade, NEW k, Seats(k), NEW d \in DOMAIN grade
    PROVE  /\ k \in DOMAIN grade /\ Count(k) <= Count(d)
           /\ Count(k) = Count(d) => Gender(k, Current.gender) <= Gender(d, Current.gender)
<1> DEFINE g == Current.gender
           cap == grade[k].capacity
<1>1. k \in LeastLoaded(DOMAIN grade, Current)
  BY DEF Seats, Chosen
<1>2. k \in DOMAIN grade /\ HasRoom(k)
  BY <1>1 DEF LeastLoaded, WithRoom
<1>3. /\ Count(k) \in Nat /\ Count(d) \in Nat /\ cap \in Nat
      /\ Gender(k, g) \in Nat /\ Gender(d, g) \in Nat
  BY <1>2, CountsAreNumbers
<1>4. grade[d].capacity = cap /\ Count(k) < cap
  BY <1>2 DEF Uniform, HasRoom
<1>5. CASE HasRoom(d)
  <2>1. ~Better(d, k, Current)
    BY <1>1, <1>5 DEF LeastLoaded, WithRoom
  <2>2. /\ ~(Count(d) * cap < Count(k) * cap)
        /\ Count(d) * cap = Count(k) * cap => ~(Gender(d, g) < Gender(k, g))
    BY <1>4, <2>1 DEF Better
  <2>3. Count(d) < Count(k) => Count(d) * cap < Count(k) * cap
    BY <1>3, <1>4, TimesPositive
  <2> QED
    BY <1>2, <1>3, <2>2, <2>3
<1>6. CASE ~HasRoom(d)
  <2>1. Count(k) < Count(d)
    BY <1>3, <1>4, <1>6 DEF HasRoom
  <2> QED
    BY <1>2, <1>3, <2>1
<1> QED
  BY <1>5, <1>6

LEMMA EvenStep ==
    ASSUME PlacementTypeOK, EvenClasses, PlacementNext
    PROVE  EvenClasses'
<1>0. policy' = policy /\ spread' = spread /\ students' = students
  BY FixedInputs
<1> SUFFICES ASSUME policy = "balanced_reshuffle", ~spread, Uniform'
             PROVE  \A c, d \in DOMAIN grade' :
                       /\ Count(c)' <= Count(d)' + 1
                       /\ AllRecorded => \A g \in Genders : Gender(c, g)' <= Gender(d, g)' + 1
  BY <1>0 DEF EvenClasses, AllRecorded
<1>1. /\ Uniform /\ grade' = grade /\ Candidates(Current) = DOMAIN grade
      /\ \E k : Seats(k)
  BY UniformStep
<1>2. PICK k : Seats(k)
  BY <1>1
<1>3. k \in DOMAIN grade /\ k \in Nat /\ Places(k)
  BY <1>2, PlacedWhere DEF Seats
<1>4. \A c \in DOMAIN grade : Count(c)' = IF c = k THEN Count(c) + 1 ELSE Count(c)
  BY <1>1, <1>3, CountMoves
<1>5. \A c, g : Gender(c, g)' = IF c = k /\ Current.gender = g THEN Gender(c, g) + 1
                                                               ELSE Gender(c, g)
  BY <1>3, GenderMoves
<1>6. \A g : \A c \in DOMAIN grade : Count(c) \in Nat /\ Gender(c, g) \in Nat
  <2> SUFFICES ASSUME NEW g, NEW c \in DOMAIN grade
               PROVE  Count(c) \in Nat /\ Gender(c, g) \in Nat
    OBVIOUS
  <2> QED
    BY CountsAreNumbers
<1>7. \A d \in DOMAIN grade :
         /\ Count(k) <= Count(d)
         /\ Count(k) = Count(d) => Gender(k, Current.gender) <= Gender(d, Current.gender)
  BY <1>1, <1>2, ChoosesLeast
<1>8. \A c, d \in DOMAIN grade :
         /\ Count(c) <= Count(d) + 1
         /\ AllRecorded => \A g \in Genders : Gender(c, g) <= Gender(d, g) + 1
  BY <1>1 DEF EvenClasses, AllRecorded
<1> SUFFICES ASSUME NEW c \in DOMAIN grade, NEW d \in DOMAIN grade
             PROVE  /\ Count(c)' <= Count(d)' + 1
                    /\ AllRecorded => \A g \in Genders : Gender(c, g)' <= Gender(d, g)' + 1
  BY <1>1
<1>9. Count(c)' <= Count(d)' + 1
  <2>1. Count(c) \in Nat /\ Count(d) \in Nat
    BY <1>6
  <2>2. Count(c) <= Count(d) + 1 /\ Count(k) <= Count(d)
    BY <1>7, <1>8
  <2>3. Count(c)' = IF c = k THEN Count(c) + 1 ELSE Count(c)
    BY <1>4
  <2>4. Count(d)' = IF d = k THEN Count(d) + 1 ELSE Count(d)
    BY <1>4
  <2> QED
    BY <2>1, <2>2, <2>3, <2>4
<1>10. ASSUME AllRecorded, NEW g \in Genders
       PROVE  Gender(c, g)' <= Gender(d, g)' + 1
  <2>1. Gender(c, g) <= Gender(d, g) + 1
    BY <1>8, <1>10
  <2>2. Gender(c, g) \in Nat /\ Gender(d, g) \in Nat
    BY <1>6
  <2>3. CASE c # k \/ d = k \/ Current.gender # g
    BY <1>5, <2>1, <2>2, <2>3
  <2>4. CASE c = k /\ d # k /\ Current.gender = g
    <3>1. Count(k) <= Count(d) /\ Count(d) <= Count(k) + 1
      BY <1>3, <1>7, <1>8
    <3>2. CASE Count(d) = Count(k)
      BY <1>5, <1>7, <2>2, <2>4, <3>2
    <3>3. CASE Count(d) = Count(k) + 1
      <4>1. /\ OtherGenders(k, g) \in Nat /\ Count(k) = Gender(k, g) + OtherGenders(k, g)
            /\ OtherGenders(d, g) \in Nat /\ Count(d) = Gender(d, g) + OtherGenders(d, g)
        BY <1>1, <1>3, <1>10, TwoGenders
      <4>2. OtherGenders(d, g) <= OtherGenders(k, g) + 1
        <5>1. \/ \A e : OtherGenders(e, g) = 0
              \/ \E h \in Genders : \A e : OtherGenders(e, g) = Gender(e, h)
          BY <1>1, <1>10, TwoGenders
        <5>2. CASE \A e : OtherGenders(e, g) = 0
          BY <5>2
        <5>3. CASE \E h \in Genders : \A e : OtherGenders(e, g) = Gender(e, h)
          BY <1>3, <1>8, <1>10, <5>3
        <5> QED
          BY <5>1, <5>2, <5>3
      <4>3. Gender(k, g) <= Gender(d, g)
        BY <2>2, <2>4, <3>3, <4>1, <4>2
      <4> QED
        BY <1>5, <2>2, <2>4, <4>3
    <3> QED
      BY <1>3, <1>6, <3>1, <3>2, <3>3
  <2> QED
    BY <2>3, <2>4
<1> QED
  BY <1>9, <1>10

(* Division by n, as the turns need it. *)
LEMMA Quotient ==
    ASSUME NEW n \in Nat \ {0}, NEW r \in Nat
    PROVE  \E q \in Nat, m \in 0..(n - 1) : r \div n = q /\ r % n = m /\ r = n * q + m
<1>1. r \div n \in Nat /\ r % n \in 0..(n - 1)
  OBVIOUS
<1>2. ASSUME NEW q \in Nat, NEW m \in Nat, q = r \div n, m = r % n
      PROVE  r = n * q + m
  BY <1>2
<1> QED
  BY <1>1, <1>2

LEMMA QuotientIsUnique ==
    ASSUME NEW n \in Nat \ {0}, NEW q \in Nat, NEW p \in Nat, NEW a \in 0..(n - 1),
           NEW b \in 0..(n - 1), n * q + a = n * p + b
    PROVE  q = p /\ a = b
<1>1. ASSUME NEW x \in Nat, NEW y \in Nat, x < y
      PROVE  n * x + n <= n * y
  <2>1. PICK k \in Nat : y = x + 1 + k
    <3>1. y - x - 1 \in Nat /\ y = x + 1 + (y - x - 1)
      BY <1>1
    <3> QED
      BY <3>1
  <2>2. n * y = n * x + n + n * k
    BY <2>1
  <2>3. n * k \in Nat /\ n * x \in Nat /\ n * y \in Nat
    OBVIOUS
  <2> QED
    BY <2>2, <2>3
<1>2. n * q \in Nat /\ n * p \in Nat
  OBVIOUS
<1>3. ~(q < p)
  <2> SUFFICES ASSUME q < p
               PROVE  FALSE
    OBVIOUS
  <2>1. n * q + n <= n * p
    BY <1>1
  <2> QED
    BY <1>2, <2>1
<1>4. ~(p < q)
  <2> SUFFICES ASSUME p < q
               PROVE  FALSE
    OBVIOUS
  <2>1. n * p + n <= n * q
    BY <1>1
  <2> QED
    BY <1>2, <2>1
<1>5. q = p
  BY <1>3, <1>4
<1> QED
  BY <1>2, <1>5

LEMMA QuotientOf ==
    ASSUME NEW n \in Nat \ {0}, NEW q \in Nat, NEW m \in 0..(n - 1), NEW r, r = n * q + m
    PROVE  r \in Nat /\ r \div n = q /\ r % n = m
<1>1. n * q \in Nat /\ r \in Nat
  OBVIOUS
<1>2. PICK p \in Nat, b \in 0..(n - 1) : r \div n = p /\ r % n = b /\ r = n * p + b
  BY <1>1, Quotient
<1>3. q = p /\ m = b
  BY <1>2, QuotientIsUnique
<1> QED
  BY <1>1, <1>2, <1>3

LEMMA RemainderOf ==
    ASSUME NEW n \in Nat \ {0}, NEW m \in 0..(n - 1)
    PROVE  (n + m) % n = m /\ m % n = m
<1>1. ASSUME NEW q, q = 1, NEW r, r = n + m
      PROVE  r % n = m
  <2>1. q \in Nat /\ r = n * q + m
    BY <1>1
  <2> QED
    BY <2>1, QuotientOf
<1>2. ASSUME NEW q, q = 0
      PROVE  m % n = m
  <2>1. q \in Nat /\ m = n * q + m
    BY <1>2
  <2> QED
    BY <2>1, QuotientOf
<1> QED
  BY <1>1, <1>2

LEMMA Parity ==
    ASSUME NEW q \in Nat
    PROVE  /\ q % 2 = 0 \/ q % 2 = 1
           /\ q % 2 = 0 <=> (q + 1) % 2 # 0
           /\ (2 * q) % 2 = 0 /\ (2 * q + 1) % 2 = 1
  OBVIOUS

(* The classes that had their turn in the round of rank r, and the students  *)
(* class c has before it.                                                    *)
Served(n, r, c) ==
    IF (r \div n) % 2 = 0 THEN c <= r % n ELSE c > n - (r % n)

InTurn(n, r, c) == (r \div n) + (IF Served(n, r, c) THEN 1 ELSE 0)

LEMMA TurnMoves ==
    ASSUME NEW n \in Nat \ {0}, NEW r \in Nat, NEW c \in 1..n
    PROVE  /\ Turn(n, r) \in 0..(n - 1)
           /\ InTurn(n, r, Turn(n, r) + 1) <= InTurn(n, r, c)
           /\ InTurn(n, r + 1, c) = InTurn(n, r, c) + (IF c = Turn(n, r) + 1 THEN 1 ELSE 0)
<1>1. PICK q \in Nat, m \in 0..(n - 1) : r \div n = q /\ r % n = m /\ r = n * q + m
  BY Quotient
<1>2. /\ q % 2 = 0 \/ q % 2 = 1
      /\ q % 2 = 0 <=> (q + 1) % 2 # 0
  BY <1>1, Parity
<1>3. Turn(n, r) = IF q % 2 = 0 THEN m ELSE n - 1 - m
  BY <1>1 DEF Turn
<1>4. \A d : InTurn(n, r, d) = q + (IF (IF q % 2 = 0 THEN d <= m ELSE d > n - m) THEN 1 ELSE 0)
  BY <1>1 DEF InTurn, Served
<1>5. CASE m + 1 < n
  <2>1. ASSUME NEW s, s = r + 1, NEW l, l = m + 1
        PROVE  s \div n = q /\ s % n = l
    <3>1. s = n * q + l /\ l \in 0..(n - 1)
      BY <1>1, <1>5, <2>1
    <3> QED
      BY <1>1, <3>1, QuotientOf
  <2>2. (r + 1) \div n = q /\ (r + 1) % n = m + 1
    BY <2>1
  <2>3. InTurn(n, r + 1, c) =
           q + (IF (IF q % 2 = 0 THEN c <= m + 1 ELSE c > n - (m + 1)) THEN 1 ELSE 0)
    BY <2>2 DEF InTurn, Served
  <2> QED
    BY <1>1, <1>2, <1>3, <1>4, <1>5, <2>3
<1>6. CASE m + 1 = n
  <2>1. ASSUME NEW s, s = r + 1, NEW p, p = q + 1, NEW l, l = 0
        PROVE  s \div n = p /\ s % n = l
    <3>1. s = n * p + l /\ p \in Nat /\ l \in 0..(n - 1)
      BY <1>1, <1>6, <2>1
    <3> QED
      BY <3>1, QuotientOf
  <2>2. (r + 1) \div n = q + 1 /\ (r + 1) % n = 0
    BY <2>1
  <2>3. InTurn(n, r + 1, c) =
           q + 1 + (IF (IF (q + 1) % 2 = 0 THEN c <= 0 ELSE c > n - 0) THEN 1 ELSE 0)
    BY <2>2 DEF InTurn, Served
  <2> QED
    BY <1>1, <1>2, <1>3, <1>4, <1>6, <2>3
<1> QED
  BY <1>1, <1>5, <1>6

(* Two ranks of a round have different turns, and two that mirror each other *)
(* in there and back the same.                                               *)
LEMMA TurnsDiffer ==
    ASSUME NEW n \in Nat \ {0}, NEW r \in Nat, NEW s \in Nat,
           r \div n = s \div n, Turn(n, r) = Turn(n, s)
    PROVE  r = s
<1>1. PICK q \in Nat, m \in 0..(n - 1) : r \div n = q /\ r % n = m /\ r = n * q + m
  BY Quotient
<1>2. PICK p \in Nat, l \in 0..(n - 1) : s \div n = p /\ s % n = l /\ s = n * p + l
  BY Quotient
<1>3. m = l
  BY <1>1, <1>2 DEF Turn
<1> QED
  BY <1>1, <1>2, <1>3

LEMMA TurnOf ==
    ASSUME NEW n \in Nat \ {0}, NEW p \in Nat, NEW m \in 0..(n - 1), NEW r, r = n * p + m
    PROVE  Turn(n, r) = IF p % 2 = 0 THEN m ELSE n - 1 - m
<1>1. r \div n = p /\ r % n = m
  BY QuotientOf
<1> QED
  BY <1>1 DEF Turn

LEMMA MirrorTurns ==
    ASSUME NEW n \in Nat \ {0}, NEW q \in Nat, NEW m \in 0..(n - 1)
    PROVE  Turn(n, (2 * n) * q + m) = Turn(n, (2 * n) * q + (2 * n - 1 - m))
<1>1. ASSUME NEW r, r = (2 * n) * q + m, NEW p, p = 2 * q
      PROVE  Turn(n, r) = m
  <2>1. p \in Nat /\ p % 2 = 0
    BY <1>1, Parity
  <2>2. r = n * p + m
    BY <1>1
  <2> QED
    BY <2>1, <2>2, TurnOf
<1>2. ASSUME NEW s, s = (2 * n) * q + (2 * n - 1 - m), NEW p, p = 2 * q + 1,
             NEW l \in 0..(n - 1), l = n - 1 - m
      PROVE  Turn(n, s) = n - 1 - l
  <2>1. p \in Nat /\ p % 2 = 1
    BY <1>2, Parity
  <2>2. s = n * p + l
    BY <1>2
  <2>3. Turn(n, s) = IF p % 2 = 0 THEN l ELSE n - 1 - l
    BY <2>1, <2>2, TurnOf
  <2> QED
    BY <2>1, <2>3
<1>3. n - 1 - m \in 0..(n - 1)
  OBVIOUS
<1>4. Turn(n, (2 * n) * q + (2 * n - 1 - m)) = n - 1 - (n - 1 - m)
  BY <1>2, <1>3
<1> QED
  BY <1>1, <1>4

LEMMA TurnsMirror ==
    \A n \in Nat \ {0}, r, s \in Nat :
        /\ r \div (2 * n) = s \div (2 * n)
        /\ (r % (2 * n)) + (s % (2 * n)) = 2 * n - 1
        /\ r % (2 * n) < n
      => Turn(n, r) = Turn(n, s)
<1>0. SUFFICES ASSUME NEW n \in Nat \ {0}, NEW r \in Nat, NEW s \in Nat,
                      r \div (2 * n) = s \div (2 * n),
                      (r % (2 * n)) + (s % (2 * n)) = 2 * n - 1,
                      r % (2 * n) < n
               PROVE  Turn(n, r) = Turn(n, s)
  OBVIOUS
<1>1. 2 * n \in Nat \ {0}
  OBVIOUS
<1>2. PICK q \in Nat, x \in 0..(2 * n - 1) :
         r \div (2 * n) = q /\ r % (2 * n) = x /\ r = (2 * n) * q + x
  BY <1>1, Quotient
<1>3. PICK k \in Nat, y \in 0..(2 * n - 1) :
         s \div (2 * n) = k /\ s % (2 * n) = y /\ s = (2 * n) * k + y
  BY <1>1, Quotient
<1>4. r = (2 * n) * q + x
  BY <1>2
<1>5. x \in 0..(n - 1) /\ k = q /\ y = 2 * n - 1 - x
  BY <1>0, <1>2, <1>3
<1>6. s = (2 * n) * q + (2 * n - 1 - x)
  BY <1>3, <1>5
<1>7. Turn(n, (2 * n) * q + x) = Turn(n, (2 * n) * q + (2 * n - 1 - x))
  BY <1>5, MirrorTurns
<1> QED
  BY <1>4, <1>6, <1>7

(* Rank r goes to the class whose turn it is, and every class has had as     *)
(* many students as turns.                                                   *)
SpreadInTurn ==
    policy = "balanced_reshuffle" /\ spread /\ Uniform =>
        /\ \A i \in DOMAIN place :
              Len(grade) > 0 /\ place[i].class = Turn(Len(grade), i - 1) + 1
        /\ \A c \in DOMAIN grade : Count(c) = InTurn(Len(grade), Len(place), c)

(* In a grade of n classes, all candidates, position and number of a class   *)
(* agree, and the class whose turn it is is nearest.                         *)
LEMMA PositionInGrade ==
    ASSUME NEW n \in Nat, NEW c \in 1..n
    PROVE  Position(1..n, c) = c - 1
<1>1. {d \in 1..n : d < c} = 1..(c - 1)
  OBVIOUS
<1>2. Cardinality(1..(c - 1)) = c - 1
  BY FS_Interval
<1> QED
  BY <1>1, <1>2 DEF Position

LEMMA NearestInGrade ==
    ASSUME NEW n \in Nat \ {0}, NEW c \in 1..n, NEW r \in Nat
    PROVE  /\ Distance(1..n, c, r) \in Nat
           /\ Distance(1..n, c, r) = 0 <=> c = Turn(n, r) + 1
<1>1. Cardinality(1..n) = n
  BY FS_Interval
<1>2. PICK t \in 0..(n - 1) : t = Turn(n, r)
  BY TurnMoves
<1>3. Distance(1..n, c, r) = (n + (c - 1) - t) % n
  BY <1>1, <1>2, PositionInGrade DEF Distance
<1>4. CASE c - 1 >= t
  <2>1. ASSUME NEW e \in 0..(n - 1), e = c - 1 - t
        PROVE  Distance(1..n, c, r) = e
    <3>1. n + (c - 1) - t = n + e
      BY <1>2, <2>1
    <3> QED
      BY <1>3, <2>1, <3>1, RemainderOf
  <2>2. c - 1 - t \in 0..(n - 1)
    BY <1>2, <1>4
  <2>3. Distance(1..n, c, r) = c - 1 - t
    BY <2>1, <2>2
  <2> QED
    BY <1>2, <2>2, <2>3
<1>5. CASE c - 1 < t
  <2>1. ASSUME NEW e \in 0..(n - 1), e = n + (c - 1) - t
        PROVE  Distance(1..n, c, r) = e
    BY <1>3, <2>1, RemainderOf
  <2>2. n + (c - 1) - t \in 1..(n - 1)
    BY <1>2, <1>5
  <2>3. Distance(1..n, c, r) = n + (c - 1) - t
    BY <2>1, <2>2
  <2> QED
    BY <1>2, <1>5, <2>2, <2>3
<1> QED
  BY <1>2, <1>4, <1>5

(* While no section is added, the class whose turn it is has room.           *)
LEMMA TakesTurn ==
    ASSUME PlacementTypeOK, SpreadInTurn, PlacementNext, Uniform,
           policy = "balanced_reshuffle", spread, Candidates(Current) = DOMAIN grade,
           NEW k, Seats(k)
    PROVE  Len(grade) > 0 /\ k = Turn(Len(grade), Len(place)) + 1
<1> DEFINE n == Len(grade)
           r == Len(place)
           t == Turn(n, r) + 1
<1>1. k \in Snake(DOMAIN grade, r)
  BY DEF Seats, Chosen
<1>2. k \in DOMAIN grade /\ HasRoom(k)
  BY <1>1 DEF Snake, WithRoom
<1>3. DOMAIN grade = 1..n /\ n \in Nat \ {0} /\ r \in Nat /\ k \in 1..n
  BY <1>2, GradeTypes
<1>4. t \in 1..n /\ InTurn(n, r, t) <= InTurn(n, r, k)
  <2>1. Turn(n, r) \in 0..(n - 1) /\ InTurn(n, r, t) <= InTurn(n, r, k)
    BY <1>3, TurnMoves
  <2> HIDE DEF n, r
  <2> QED
    BY <1>3, <2>1
<1>5. Count(t) = InTurn(n, r, t) /\ Count(k) = InTurn(n, r, k)
  BY <1>3, <1>4 DEF SpreadInTurn
<1>6. /\ Count(t) \in Nat /\ Count(k) \in Nat
      /\ grade[t].capacity \in Nat /\ grade[t].capacity = grade[k].capacity
  BY <1>3, <1>4, CountsAreNumbers DEF Uniform
<1>7. HasRoom(t)
  BY <1>2, <1>4, <1>5, <1>6 DEF HasRoom
<1>8. Distance(1..n, k, r) <= Distance(1..n, t, r)
  BY <1>1, <1>3, <1>4, <1>7 DEF Snake, WithRoom
<1>9. /\ Distance(1..n, t, r) = 0
      /\ Distance(1..n, k, r) \in Nat
      /\ Distance(1..n, k, r) = 0 <=> k = t
  <2> HIDE DEF n, r
  <2> QED
    BY <1>3, <1>4, NearestInGrade
<1> QED
  BY <1>3, <1>8, <1>9

LEMMA SpreadStep ==
    ASSUME PlacementTypeOK, SpreadInTurn, PlacementNext
    PROVE  SpreadInTurn'
<1>0. policy' = policy /\ spread' = spread
  BY FixedInputs
<1> SUFFICES ASSUME policy = "balanced_reshuffle", spread, Uniform'
             PROVE  /\ \A i \in DOMAIN place' :
                          Len(grade') > 0 /\ place'[i].class = Turn(Len(grade'), i - 1) + 1
                    /\ \A c \in DOMAIN grade' : Count(c)' = InTurn(Len(grade'), Len(place'), c)
  BY <1>0 DEF SpreadInTurn
<1>1. /\ Uniform /\ grade' = grade /\ Candidates(Current) = DOMAIN grade
      /\ \E k : Seats(k)
  BY UniformStep
<1>2. PICK k : Seats(k)
  BY <1>1
<1>3. k \in DOMAIN grade /\ k \in Nat /\ Places(k)
  BY <1>2, PlacedWhere DEF Seats
<1>4. Len(grade) > 0 /\ k = Turn(Len(grade), Len(place)) + 1
  BY <1>1, <1>2, TakesTurn
<1>5. /\ Len(place') = Len(place) + 1
      /\ DOMAIN place' = DOMAIN place \union {Len(place) + 1}
      /\ place'[Len(place) + 1].class = k
      /\ \A i \in DOMAIN place : place'[i] = place[i]
  BY <1>3, PlacesEffect
<1>6. \A c \in DOMAIN grade : Count(c)' = IF c = k THEN Count(c) + 1 ELSE Count(c)
  BY <1>1, <1>3, CountMoves
<1>7. DOMAIN grade = 1..Len(grade) /\ Len(grade) \in Nat \ {0} /\ Len(place) \in Nat
  BY <1>4, GradeTypes
<1>8. \A i \in DOMAIN place' : place'[i].class = Turn(Len(grade), i - 1) + 1
  <2>1. (Len(place) + 1) - 1 = Len(place)
    BY <1>7
  <2>2. ASSUME NEW i, i = Len(place) + 1
        PROVE  place'[i].class = Turn(Len(grade), i - 1) + 1
    BY <1>4, <1>5, <2>1, <2>2
  <2>3. ASSUME NEW i \in DOMAIN place
        PROVE  place'[i].class = Turn(Len(grade), i - 1) + 1
    BY <1>1, <1>5 DEF SpreadInTurn
  <2> QED
    BY <1>5, <2>2, <2>3
<1>9. ASSUME NEW c \in DOMAIN grade
      PROVE  Count(c)' = InTurn(Len(grade), Len(place) + 1, c)
  <2>1. Count(c) = InTurn(Len(grade), Len(place), c) /\ Count(c) \in Nat
    BY <1>1, CountsAreNumbers DEF SpreadInTurn
  <2>2. InTurn(Len(grade), Len(place) + 1, c) =
           InTurn(Len(grade), Len(place), c) + (IF c = k THEN 1 ELSE 0)
    BY <1>4, <1>7, TurnMoves
  <2>3. Count(c)' = IF c = k THEN Count(c) + 1 ELSE Count(c)
    BY <1>6
  <2> QED
    BY <2>1, <2>2, <2>3
<1> QED
  BY <1>1, <1>4, <1>5, <1>8, <1>9

LEMMA TurnsSpread ==
    ASSUME PlacementTypeOK, SpreadInTurn
    PROVE  SpreadEvenly
<1> SUFFICES ASSUME policy = "balanced_reshuffle", spread, Uniform,
                    NEW n, n = Len(grade), NEW i \in DOMAIN place, NEW j \in DOMAIN place
             PROVE  /\ i # j /\ (i - 1) \div n = (j - 1) \div n => place[i].class # place[j].class
                    /\ (i - 1) \div (2 * n) = (j - 1) \div (2 * n)
                            /\ ((i - 1) % (2 * n)) + ((j - 1) % (2 * n)) = 2 * n - 1
                          => place[i].class = place[j].class
  BY DEF SpreadEvenly
<1>1. n \in Nat \ {0} /\ i \in 1..Len(place) /\ j \in 1..Len(place) /\ Len(place) \in Nat
  BY GradeTypes DEF SpreadInTurn
<1>2. PICK r \in Nat : r = i - 1
  BY <1>1
<1>3. PICK s \in Nat : s = j - 1
  BY <1>1
<1>4. place[i].class = Turn(n, r) + 1 /\ place[j].class = Turn(n, s) + 1
  BY <1>2, <1>3 DEF SpreadInTurn
<1>5. Turn(n, r) \in 0..(n - 1) /\ Turn(n, s) \in 0..(n - 1)
  <2>1. PICK c \in 1..n : c = 1
    BY <1>1
  <2> QED
    BY <1>1, <2>1, TurnMoves
<1>6. ASSUME i # j, r \div n = s \div n
      PROVE  place[i].class # place[j].class
  <2>1. Turn(n, r) # Turn(n, s)
    BY <1>1, <1>2, <1>3, <1>6, TurnsDiffer
  <2> QED
    BY <1>4, <1>5, <2>1
<1>7. ASSUME r \div (2 * n) = s \div (2 * n), (r % (2 * n)) + (s % (2 * n)) = 2 * n - 1
      PROVE  place[i].class = place[j].class
  <2>1. r % (2 * n) < n \/ s % (2 * n) < n
    BY <1>1, <1>7
  <2>2. (s % (2 * n)) + (r % (2 * n)) = 2 * n - 1
    BY <1>1, <1>7
  <2>3. Turn(n, r) = Turn(n, s)
    BY <1>1, <1>7, <2>1, <2>2, TurnsMirror
  <2> QED
    BY <1>4, <2>3
<1> QED
  BY <1>2, <1>3, <1>6, <1>7

BalanceInv == PlacementTypeOK /\ EvenClasses /\ SpreadInTurn

LEMMA BalanceStart == PlacementInit => BalanceInv
<1> SUFFICES ASSUME PlacementInit
             PROVE  BalanceInv
  OBVIOUS
<1>1. PlacementTypeOK /\ place = <<>>
  BY PlacementStarts
<1>2. DOMAIN place = {} /\ Len(place) = 0
  BY <1>1
<1>3. ASSUME NEW c
      PROVE  Members(c) = {}
  BY <1>2 DEF Members
<1>4. ASSUME Uniform, NEW c \in DOMAIN grade
      PROVE  Count(c) = 0 /\ \A g \in Genders : Gender(c, g) = 0
  <2>1. Cardinality(Members(c)) = 0
    BY <1>3, FS_EmptySet
  <2>2. ASSUME NEW g
        PROVE  Gender(c, g) = 0
    <3>1. {i \in Members(c) : students[i].gender = g} = {}
      BY <1>3
    <3> QED
      BY <3>1, FS_EmptySet DEF Gender
  <2> QED
    BY <1>4, <2>1, <2>2 DEF Count, Uniform
<1>5. EvenClasses
  BY <1>4 DEF EvenClasses
<1>6. ASSUME NEW n \in Nat \ {0}, NEW c \in 1..n
      PROVE  InTurn(n, 0, c) = 0
  <2>1. 0 \div n = 0 /\ 0 % n = 0
    <3>1. 0 = n * 0 + 0
      OBVIOUS
    <3> QED
      BY <3>1, QuotientOf
  <2> QED
    BY <2>1 DEF InTurn, Served
<1>7. SpreadInTurn
  <2>1. ASSUME Uniform, NEW c \in DOMAIN grade
        PROVE  Count(c) = InTurn(Len(grade), Len(place), c)
    <3>1. Len(grade) \in Nat \ {0} /\ c \in 1..Len(grade)
      BY <1>1, GradeTypes
    <3> QED
      BY <1>2, <1>4, <1>6, <2>1, <3>1
  <2> QED
    BY <1>2, <2>1 DEF SpreadInTurn
<1> QED
  BY <1>1, <1>5, <1>7 DEF BalanceInv

LEMMA BalanceStep == BalanceInv /\ [PlacementNext]_placementVars => BalanceInv'
<1> SUFFICES ASSUME BalanceInv, [PlacementNext]_placementVars
             PROVE  BalanceInv'
  OBVIOUS
<1>1. PlacementTypeOK'
  BY PlacementTypeStep DEF BalanceInv
<1>2. CASE PlacementNext
  BY <1>1, <1>2, EvenStep, SpreadStep DEF BalanceInv
<1>3. CASE UNCHANGED placementVars
  <2>1. EvenClasses' = EvenClasses /\ SpreadInTurn' = SpreadInTurn
    BY <1>3 DEF placementVars, EvenClasses, SpreadInTurn, Uniform, Count, Members, Gender
  <2> QED
    BY <1>1, <2>1 DEF BalanceInv
<1> QED
  BY <1>2, <1>3

(* Reshuffling leaves alike classes even: in numbers, and in gender where it *)
(* is recorded; spreading by marks gives every class one student of every    *)
(* round and the same share of there and back.                               *)
THEOREM ClassesStayBalanced == PlacementSpec => []BalancedClasses
<1>1. BalanceInv => BalancedClasses
  BY TurnsSpread DEF BalanceInv, BalancedClasses
<1> QED
  BY <1>1, BalanceStart, BalanceStep, PTL DEF PlacementSpec

-----------------------------------------------------------------------------
(* Allocation, for any school. *)

(* An open run is one of those that may still be. *)
RoomForRun == stage # "none" => Len(history) < plan.runs

(* A record of the history after others wrote some posts, and all of them. *)
LEMMA StaleHistory ==
    ASSUME history \in Seq(Applied), NEW ps \in SUBSET Posts
    PROVE  /\ Stale(ps) \in Seq(Applied)
           /\ Len(Stale(ps)) = Len(history) /\ DOMAIN Stale(ps) = DOMAIN history
           /\ \A r \in DOMAIN history :
                 /\ Stale(ps)[r].changed = history[r].changed \union ps
                 /\ Stale(ps)[r].touched = history[r].touched
                 /\ Stale(ps)[r].previous = history[r].previous
                 /\ Stale(ps)[r].classes = history[r].classes
                 /\ Stale(ps)[r].reverted = history[r].reverted
                 /\ Stale(ps)[r].before = history[r].before
<1>1. /\ Len(history) \in Nat /\ DOMAIN history = 1..Len(history)
      /\ \A r \in DOMAIN history : history[r] \in Applied
  OBVIOUS
<1>2. \A r \in DOMAIN history : [history[r] EXCEPT !.changed = @ \union ps] \in Applied
  BY <1>1 DEF Applied
<1>3. Stale(ps) \in [1..Len(history) -> Applied]
  BY <1>1, <1>2 DEF Stale
<1>4. Stale(ps) \in Seq(Applied) /\ Len(Stale(ps)) = Len(history)
  BY <1>1, <1>3
<1>5. DOMAIN Stale(ps) = DOMAIN history
  BY <1>1, <1>3
<1>6. ASSUME NEW r \in DOMAIN history
      PROVE  /\ Stale(ps)[r].changed = history[r].changed \union ps
             /\ Stale(ps)[r].touched = history[r].touched
             /\ Stale(ps)[r].previous = history[r].previous
             /\ Stale(ps)[r].classes = history[r].classes
             /\ Stale(ps)[r].reverted = history[r].reverted
             /\ Stale(ps)[r].before = history[r].before
  BY <1>1 DEF Stale, Applied
<1> QED
  BY <1>4, <1>5, <1>6

LEMMA FittingTeachers ==
    ASSUME AllocationTypeOK, NEW p \in Posts
    PROVE  /\ Qualified(p) \subseteq Teachers
           /\ Fitting(p) \subseteq Teachers /\ Lightest(p) \subseteq Teachers
BY DEF AllocationTypeOK, Qualified, Fitting, Lightest

LEMMA AllocationStarts == AllocationInit => AllocationTypeOK
<1> SUFFICES ASSUME AllocationInit
             PROVE  AllocationTypeOK
  OBVIOUS
<1>1. PICK family \in Plans : \E in \in family : plan = in.plan /\ holder = in.holder
  BY DEF AllocationInit
<1>2. \E in \in [plan: Plan, holder: Holders] : plan = in.plan /\ holder = in.holder
  BY <1>1, PlansAssumption
<1>3. plan \in Plan /\ holder \in Holders
  BY <1>2
<1>4. Empty \in Holders
  BY DEF Empty, Holders
<1>5. plan.runs \in Nat /\ plan.changes \in Nat
  BY <1>3 DEF Plan
<1> QED
  BY <1>3, <1>4, <1>5 DEF AllocationInit, AllocationTypeOK

LEMMA OfferTypes ==
    ASSUME AllocationTypeOK, RoomForRun, NEW p \in todo, NEW t \in Teachers \union {Nobody},
           Offer(p, t)
    PROVE  AllocationTypeOK' /\ RoomForRun'
<1>1. offer' \in Holders
  BY DEF AllocationTypeOK, Offer, Holders
<1> QED
  BY <1>1 DEF AllocationTypeOK, Offer, RoomForRun

LEMMA AllocationTypeStep ==
    AllocationTypeOK /\ RoomForRun /\ [AllocationNext]_allocationVars
        => AllocationTypeOK' /\ RoomForRun'
<1> SUFFICES ASSUME AllocationTypeOK, RoomForRun, [AllocationNext]_allocationVars
             PROVE  AllocationTypeOK' /\ RoomForRun'
  OBVIOUS
<1> DEFINE Anybody == Teachers \union {Nobody}
<1>a. Empty \in Holders
  BY DEF Empty, Holders
<1>b. plan.runs \in Nat /\ plan.changes \in Nat /\ changes \in Nat /\ Len(history) \in Nat
  BY DEF AllocationTypeOK, Plan
<1>c. Needs \subseteq Posts
  BY DEF Needs
<1>1. CASE UNCHANGED allocationVars
  BY <1>1 DEF allocationVars, AllocationTypeOK, RoomForRun
<1>2. CASE Propose
  <2>1. offer' \in Holders
    BY <1>2 DEF Propose, Holders, AllocationTypeOK
  <2>2. todo' \subseteq Posts
    BY <1>2, <1>c DEF Propose, FormsWanted
  <2>3. seen'.holder \in Holders /\ seen'.active \subseteq Teachers
    BY <1>2 DEF Propose, AllocationTypeOK
  <2> QED
    BY <1>2, <2>1, <2>2, <2>3 DEF Propose, AllocationTypeOK, RoomForRun
<1>3. ASSUME NEW p \in todo, Continue(p) \/ Choose(p) \/ LeaveEmpty(p) \/ SuggestForm(p)
      PROVE  AllocationTypeOK' /\ RoomForRun'
  <2>1. p \in Posts
    BY DEF AllocationTypeOK
  <2>2. CASE Continue(p)
    BY <2>1, <2>2, FittingTeachers, OfferTypes DEF Continue, RoomForRun
  <2>3. CASE Choose(p)
    BY <2>1, <2>3, FittingTeachers, OfferTypes DEF Choose
  <2>4. CASE LeaveEmpty(p)
    BY <2>4, OfferTypes DEF LeaveEmpty
  <2>5. CASE SuggestForm(p)
    <3>1. seen.active \subseteq Teachers /\ MostInClass(p[1]) \subseteq Teachers
      BY DEF AllocationTypeOK, MostInClass
    <3>2. \E t \in Teachers \union {Nobody} : Offer(p, t)
      BY <2>5, <3>1 DEF SuggestForm
    <3> QED
      BY <3>2, OfferTypes
  <2> QED
    BY <1>3, <2>2, <2>3, <2>4, <2>5
<1>4. ASSUME NEW p \in Posts, NEW t \in Teachers \union {Nobody}, Edit(p, t)
      PROVE  AllocationTypeOK' /\ RoomForRun'
  <2>1. offer' \in Holders
    BY <1>4 DEF Edit, Holders, AllocationTypeOK
  <2> QED
    BY <1>4, <1>b, <2>1 DEF Edit, Change, AllocationTypeOK, RoomForRun
<1>5. CASE BeginApply
  BY <1>5 DEF BeginApply, AllocationTypeOK, RoomForRun
<1>6. CASE FinishApply
  <2> DEFINE previous == [p \in Posts |-> CASE p \notin Touched -> Nobody
                                            [] p \in Touched /\ p[2] = Form -> holder[p]
                                            [] p \in Touched /\ p[2] # Form -> had[p]]
             new == [touched |-> Touched, previous |-> previous,
                     classes |-> SnapshotClasses(Touched), reverted |-> FALSE,
                     before |-> holder, changed |-> since]
  <2>1. Touched \subseteq Posts
    BY DEF Touched
  <2>2. SnapshotClasses(Touched) \subseteq Classes
    BY <2>1 DEF SnapshotClasses, Posts
  <2>3. holder' \in Holders
    BY <1>6 DEF FinishApply, AllocationTypeOK, Holders
  <2>4. previous \in Holders
    BY DEF AllocationTypeOK, Holders
  <2>5. new \in Applied
    BY <2>1, <2>2, <2>4 DEF Applied, AllocationTypeOK
  <2>6. history' = Append(Stale(Touched), new)
    BY <1>6 DEF FinishApply
  <2>7. Stale(Touched) \in Seq(Applied) /\ Len(Stale(Touched)) = Len(history)
    BY <2>1, StaleHistory DEF AllocationTypeOK
  <2> HIDE DEF new
  <2>8. history' \in Seq(Applied) /\ Len(history') = Len(history) + 1
    BY <2>5, <2>6, <2>7
  <2>9. {holder, offer, had, seen.holder}' \subseteq Holders
    BY <1>6, <1>a, <2>3 DEF FinishApply
  <2>10. {todo, since}' \subseteq SUBSET Posts /\ todo' = {}
    BY <1>6 DEF FinishApply, AllocationTypeOK
  <2>11. plan' \in Plan /\ reverting' \in 0..Len(history')
    BY <1>6, <1>b, <2>8 DEF FinishApply, AllocationTypeOK
  <2>12. changes' \in 0..plan'.changes /\ Len(history') <= plan'.runs /\ RoomForRun'
    BY <1>6, <1>b, <2>8 DEF FinishApply, AllocationTypeOK, RoomForRun
  <2>13. /\ active' \subseteq Teachers /\ seen'.active \subseteq Teachers
         /\ {submitted, looked}' \subseteq SUBSET Classes
         /\ stage' \in {"none", "open", "edited", "applying"}
    BY <1>6 DEF FinishApply, AllocationTypeOK
  <2> QED
    BY <2>8, <2>9, <2>10, <2>11, <2>12, <2>13 DEF AllocationTypeOK
<1>7. ASSUME NEW r \in DOMAIN history, RevertLook(r)
      PROVE  AllocationTypeOK' /\ RoomForRun'
  BY <1>7, <1>b DEF RevertLook, AllocationTypeOK, RoomForRun
<1>8. CASE RevertWrite
  <2> DEFINE old == history[reverting]
  <2>1. reverting \in DOMAIN history /\ old \in Applied
    BY <1>8 DEF RevertWrite, AllocationTypeOK
  <2>2. old.touched \in SUBSET Posts /\ old.previous \in Holders
    BY <2>1 DEF Applied
  <2>3. holder' \in Holders
    BY <1>8, <2>2 DEF RevertWrite, AllocationTypeOK, Holders
  <2>4. /\ Stale(old.touched) \in Seq(Applied)
        /\ Len(Stale(old.touched)) = Len(history) /\ DOMAIN Stale(old.touched) = DOMAIN history
    BY <2>2, StaleHistory DEF AllocationTypeOK
  <2>5. Stale(old.touched)[reverting] \in Applied
    BY <2>1, <2>4
  <2>6. [Stale(old.touched)[reverting] EXCEPT !.reverted = TRUE] \in Applied
    BY <2>5 DEF Applied
  <2>7. history' = [Stale(old.touched) EXCEPT
                       ![reverting] = [Stale(old.touched)[reverting] EXCEPT !.reverted = TRUE]]
    BY <1>8, <2>1, <2>4 DEF RevertWrite
  <2>8. history' \in Seq(Applied) /\ Len(history') = Len(history)
    BY <2>1, <2>4, <2>6, <2>7
  <2>9. since' \in SUBSET Posts
    BY <1>8, <2>2 DEF RevertWrite, WrittenMeanwhile, AllocationTypeOK
  <2> QED
    BY <1>8, <1>b, <2>3, <2>8, <2>9 DEF RevertWrite, AllocationTypeOK, RoomForRun
<1>9. ASSUME NEW p \in Posts, NEW t \in Teachers, Assign(p, t)
      PROVE  AllocationTypeOK' /\ RoomForRun'
  <2>1. holder' \in Holders
    BY <1>9 DEF Assign, AllocationTypeOK, Holders
  <2>2. history' \in Seq(Applied) /\ Len(history') = Len(history)
    BY <1>9, StaleHistory DEF Assign, AllocationTypeOK
  <2>3. since' \in SUBSET Posts
    BY <1>9 DEF Assign, WrittenMeanwhile, AllocationTypeOK
  <2>4. {holder, offer, had, seen.holder}' \subseteq Holders
    BY <1>9, <2>1 DEF Assign, AllocationTypeOK
  <2>5. {todo, since}' \subseteq SUBSET Posts
    BY <1>9, <2>3 DEF Assign, AllocationTypeOK
  <2>6. plan' \in Plan /\ reverting' \in 0..Len(history')
    BY <1>9, <2>2 DEF Assign, AllocationTypeOK
  <2>7. changes' \in 0..plan'.changes /\ Len(history') <= plan'.runs /\ RoomForRun'
    BY <1>9, <1>b, <2>2 DEF Assign, Change, AllocationTypeOK, RoomForRun
  <2>8. /\ active' \subseteq Teachers /\ seen'.active \subseteq Teachers
        /\ {submitted, looked}' \subseteq SUBSET Classes
        /\ stage' \in {"none", "open", "edited", "applying"}
        /\ stage' # "open" => todo' = {}
    BY <1>9 DEF Assign, AllocationTypeOK
  <2> QED
    BY <2>2, <2>4, <2>5, <2>6, <2>7, <2>8 DEF AllocationTypeOK
<1>10. ASSUME NEW t \in Teachers, Resign(t)
       PROVE  AllocationTypeOK' /\ RoomForRun'
  BY <1>10, <1>b DEF Resign, Change, AllocationTypeOK, RoomForRun
<1>11. ASSUME NEW c \in Classes, SubmitOrReturn(c)
       PROVE  AllocationTypeOK' /\ RoomForRun'
  BY <1>11, <1>b DEF SubmitOrReturn, Change, AllocationTypeOK, RoomForRun
<1> QED
  BY <1>1, <1>2, <1>3, <1>4, <1>5, <1>6, <1>7, <1>8, <1>9, <1>10, <1>11 DEF AllocationNext
(* What others did not write is as Apply read it. *)
HadFresh == stage = "applying" => \A p \in Posts \ since : had[p] = holder[p]

(* What others did not write is as the run found it, where the run did not  *)
(* write, and as its snapshot has it, where it did.                         *)
RunTrue(x, now) ==
    /\ x.classes = SnapshotClasses(x.touched)
    /\ ~x.reverted =>
          \A p \in Posts \ x.changed :
              (IF p \in x.touched THEN x.previous[p] ELSE now[p]) = x.before[p]

HistoryTrue == \A r \in DOMAIN history : RunTrue(history[r], holder)

LookedAt ==
    reverting # 0 =>
        ~history[reverting].reverted /\ history[reverting].classes \intersect looked = {}

AllocationInv ==
    /\ AllocationTypeOK
    /\ RoomForRun
    /\ HadFresh
    /\ HistoryTrue
    /\ LookedAt

(* A write leaves every run true that knows of it. *)
LEMMA StaleTrue ==
    ASSUME AllocationTypeOK, HistoryTrue, NEW ps \in SUBSET Posts,
           NEW now, \A p \in Posts \ ps : now[p] = holder[p],
           NEW r \in DOMAIN history
    PROVE  RunTrue(Stale(ps)[r], now)
BY StaleHistory DEF HistoryTrue, RunTrue, AllocationTypeOK

LEMMA HistoryTrueKept ==
    ASSUME AllocationInv, UNCHANGED <<holder, history, reverting, looked, since>>,
           stage' = "applying" => stage = "applying" /\ UNCHANGED had
    PROVE  HadFresh' /\ HistoryTrue' /\ LookedAt'
BY DEF AllocationInv, HadFresh, HistoryTrue, LookedAt, RunTrue, SnapshotClasses

LEMMA AllocationInvStep ==
    AllocationInv /\ [AllocationNext]_allocationVars => AllocationInv'
<1> SUFFICES ASSUME AllocationInv, [AllocationNext]_allocationVars
             PROVE  AllocationInv'
  OBVIOUS
<1>t. AllocationTypeOK /\ RoomForRun /\ HistoryTrue /\ LookedAt /\ HadFresh
  BY DEF AllocationInv
<1>u. AllocationTypeOK' /\ RoomForRun'
  BY <1>t, AllocationTypeStep
<1>n. Len(history) \in Nat /\ DOMAIN history = 1..Len(history)
  BY <1>t DEF AllocationTypeOK
<1> SUFFICES HadFresh' /\ HistoryTrue' /\ LookedAt'
  BY <1>u DEF AllocationInv
<1>1. CASE UNCHANGED allocationVars
  BY <1>1, HistoryTrueKept DEF allocationVars
<1>2. CASE Propose
  BY <1>2, HistoryTrueKept DEF Propose
<1>3. ASSUME NEW p \in todo, Continue(p) \/ Choose(p) \/ LeaveEmpty(p) \/ SuggestForm(p)
      PROVE  HadFresh' /\ HistoryTrue' /\ LookedAt'
  <2>1. \E t : Offer(p, t)
    BY <1>3 DEF Continue, Choose, LeaveEmpty, SuggestForm
  <2> QED
    BY <2>1, HistoryTrueKept DEF Offer
<1>4. ASSUME NEW p \in Posts, NEW t \in Teachers \union {Nobody}, Edit(p, t)
      PROVE  HadFresh' /\ HistoryTrue' /\ LookedAt'
  BY <1>4, HistoryTrueKept DEF Edit
<1>5. CASE BeginApply
  BY <1>5, <1>t DEF BeginApply, HadFresh, HistoryTrue, LookedAt, RunTrue, SnapshotClasses
<1>6. CASE FinishApply
  <2> DEFINE previous == [p \in Posts |-> CASE p \notin Touched -> Nobody
                                            [] p \in Touched /\ p[2] = Form -> holder[p]
                                            [] p \in Touched /\ p[2] # Form -> had[p]]
             new == [touched |-> Touched, previous |-> previous,
                     classes |-> SnapshotClasses(Touched), reverted |-> FALSE,
                     before |-> holder, changed |-> since]
  <2>1. Touched \in SUBSET Posts
    BY DEF Touched
  <2>2. stage = "applying" /\ history' = Append(Stale(Touched), new)
        /\ holder' = [p \in Posts |-> IF p \in Touched THEN offer[p] ELSE holder[p]]
    BY <1>6 DEF FinishApply
  <2>3. /\ Stale(Touched) \in Seq(Applied)
        /\ Len(Stale(Touched)) = Len(history) /\ DOMAIN Stale(Touched) = DOMAIN history
        /\ \A r \in DOMAIN history :
              /\ Stale(Touched)[r].classes = history[r].classes
              /\ Stale(Touched)[r].reverted = history[r].reverted
    BY <1>t, <2>1, StaleHistory DEF AllocationTypeOK
  <2>4. RunTrue(new, holder')
    <3>1. \A p \in Posts \ since : had[p] = holder[p]
      BY <1>t, <2>2 DEF HadFresh
    <3> QED
      BY <2>1, <2>2, <3>1 DEF RunTrue
  <2>5. \A r \in DOMAIN history : RunTrue(Stale(Touched)[r], holder')
    BY <1>t, <2>1, <2>2, StaleTrue
  <2> HIDE DEF new
  <2>6. /\ DOMAIN history' = 1..(Len(history) + 1)
        /\ history'[Len(history) + 1] = new
        /\ \A r \in DOMAIN history : history'[r] = Stale(Touched)[r]
    BY <1>n, <2>2, <2>3
  <2>7. \A r \in DOMAIN history' : RunTrue(history'[r], holder')
    BY <1>n, <2>4, <2>5, <2>6
  <2>8. HistoryTrue'
    BY <2>7 DEF HistoryTrue, RunTrue, SnapshotClasses
  <2>9. LookedAt'
    <3>1. /\ reverting' = reverting /\ looked' = looked
          /\ reverting # 0 => reverting \in DOMAIN history
      BY <1>6, <1>t, <1>n DEF FinishApply, AllocationTypeOK
    <3> QED
      BY <1>t, <2>3, <2>6, <3>1 DEF LookedAt
  <2>10. HadFresh'
    BY <1>6 DEF FinishApply, HadFresh
  <2> QED
    BY <2>8, <2>9, <2>10
<1>7. ASSUME NEW r \in DOMAIN history, RevertLook(r)
      PROVE  HadFresh' /\ HistoryTrue' /\ LookedAt'
  BY <1>7, <1>t DEF RevertLook, HadFresh, HistoryTrue, LookedAt, RunTrue, SnapshotClasses
<1>8. CASE RevertWrite
  <2> DEFINE x == history[reverting]
             ps == x.touched
  <2>1. reverting \in DOMAIN history /\ x \in Applied
    BY <1>8, <1>t, <1>n DEF RevertWrite, AllocationTypeOK
  <2>2. ps \in SUBSET Posts
    BY <2>1 DEF Applied
  <2>3. /\ holder' = [p \in Posts |-> IF p \in ps THEN x.previous[p] ELSE holder[p]]
        /\ history' = [Stale(ps) EXCEPT ![reverting].reverted = TRUE]
        /\ since' = WrittenMeanwhile(ps)
        /\ reverting' = 0 /\ UNCHANGED <<stage, had>>
    BY <1>8 DEF RevertWrite
  <2> HIDE DEF ps
  <2>4. /\ Stale(ps) \in Seq(Applied) /\ DOMAIN Stale(ps) = DOMAIN history
        /\ Stale(ps)[reverting] \in Applied
    BY <1>t, <2>1, <2>2, StaleHistory DEF AllocationTypeOK
  <2>5. \A r \in DOMAIN history : RunTrue(Stale(ps)[r], holder')
    BY <1>t, <2>2, <2>3, StaleTrue
  <2>6. DOMAIN history' = DOMAIN history
    BY <2>3, <2>4
  <2>7. ASSUME NEW r \in DOMAIN history
        PROVE  RunTrue(history'[r], holder')
    <3>1. CASE r # reverting
      BY <2>3, <2>4, <2>5, <3>1
    <3>2. CASE r = reverting
      <4>1. /\ history'[r].reverted = TRUE
            /\ history'[r].classes = Stale(ps)[r].classes
            /\ history'[r].touched = Stale(ps)[r].touched
        BY <2>3, <2>4, <3>2 DEF Applied
      <4> QED
        BY <2>5, <4>1 DEF RunTrue
    <3> QED
      BY <3>1, <3>2
  <2>8. HistoryTrue'
    BY <2>6, <2>7 DEF HistoryTrue, RunTrue, SnapshotClasses
  <2>9. HadFresh'
    BY <1>t, <2>2, <2>3 DEF HadFresh, WrittenMeanwhile, AllocationTypeOK
  <2> QED
    BY <2>3, <2>8, <2>9 DEF LookedAt
<1>9. ASSUME NEW p \in Posts, NEW t \in Teachers, Assign(p, t)
      PROVE  HadFresh' /\ HistoryTrue' /\ LookedAt'
  <2> DEFINE ps == {p}
  <2>0. ps \in SUBSET Posts
    OBVIOUS
  <2>1. /\ holder' = [holder EXCEPT ![p] = t]
        /\ history' = Stale(ps) /\ since' = WrittenMeanwhile(ps)
        /\ UNCHANGED <<stage, had, reverting, looked>>
    BY <1>9 DEF Assign
  <2>2. \A q \in Posts \ ps : holder'[q] = holder[q]
    BY <1>t, <2>1 DEF AllocationTypeOK, Holders
  <2> HIDE DEF ps
  <2>3. /\ DOMAIN Stale(ps) = DOMAIN history
        /\ \A r \in DOMAIN history :
              /\ Stale(ps)[r].classes = history[r].classes
              /\ Stale(ps)[r].reverted = history[r].reverted
    BY <1>t, <2>0, StaleHistory DEF AllocationTypeOK
  <2>4. \A r \in DOMAIN history : RunTrue(Stale(ps)[r], holder')
    BY <1>t, <2>0, <2>2, StaleTrue
  <2>9. \A r \in DOMAIN history' : RunTrue(history'[r], holder')
    BY <2>1, <2>3, <2>4
  <2>5. HistoryTrue'
    BY <2>9 DEF HistoryTrue, RunTrue, SnapshotClasses
  <2>6. LookedAt'
    BY <1>t, <1>n, <2>1, <2>3 DEF LookedAt, AllocationTypeOK
  <2>7. HadFresh'
    BY <1>t, <2>0, <2>1, <2>2 DEF HadFresh, WrittenMeanwhile, AllocationTypeOK
  <2> QED
    BY <2>5, <2>6, <2>7
<1>10. ASSUME NEW t \in Teachers, Resign(t)
       PROVE  HadFresh' /\ HistoryTrue' /\ LookedAt'
  BY <1>10, HistoryTrueKept DEF Resign
<1>11. ASSUME NEW c \in Classes, SubmitOrReturn(c)
       PROVE  HadFresh' /\ HistoryTrue' /\ LookedAt'
  BY <1>11, HistoryTrueKept DEF SubmitOrReturn
<1> QED
  BY <1>1, <1>2, <1>3, <1>4, <1>5, <1>6, <1>7, <1>8, <1>9, <1>10, <1>11 DEF AllocationNext

LEMMA AllocationInvStarts == AllocationInit => AllocationInv
<1> SUFFICES ASSUME AllocationInit
             PROVE  AllocationInv
  OBVIOUS
<1>1. stage = "none" /\ history = <<>> /\ reverting = 0
  BY DEF AllocationInit
<1> QED
  BY <1>1, AllocationStarts DEF AllocationInv, RoomForRun, HadFresh, HistoryTrue, LookedAt

(* What a step of a revert does, as AllocationReverts says it. *)
LEMMA RevertGivesBack ==
    ASSUME AllocationInv, [AllocationNext]_allocationVars,
           NEW r \in DOMAIN history, ~history[r].reverted, history'[r].reverted
    PROVE  /\ \A p \in Posts \ history[r].changed : holder'[p] = history[r].before[p]
           /\ \A p \in Posts : p[1] \in looked => holder'[p] = holder[p]
<1>t. AllocationTypeOK /\ HistoryTrue /\ LookedAt
  BY DEF AllocationInv
<1>n. Len(history) \in Nat /\ DOMAIN history = 1..Len(history)
  BY <1>t DEF AllocationTypeOK
<1>s. ASSUME NEW ps \in SUBSET Posts
      PROVE  Stale(ps)[r].reverted = history[r].reverted
  BY <1>t, StaleHistory DEF AllocationTypeOK
<1>1. RevertWrite /\ r = reverting
  <2>1. CASE FinishApply
    <3>1. Touched \in SUBSET Posts
      BY DEF Touched
    <3>2. Stale(Touched) \in Seq(Applied) /\ Len(Stale(Touched)) = Len(history)
      BY <1>t, <3>1, StaleHistory DEF AllocationTypeOK
    <3>3. PICK new : history' = Append(Stale(Touched), new)
      BY <2>1 DEF FinishApply
    <3>4. history'[r] = Stale(Touched)[r]
      BY <1>n, <3>2, <3>3
    <3> QED
      BY <1>s, <3>1, <3>4
  <2>2. CASE RevertWrite /\ r # reverting
    <3> DEFINE ps == history[reverting].touched
    <3>1. reverting \in DOMAIN history /\ history[reverting] \in Applied
      BY <2>2, <1>t, <1>n DEF RevertWrite, AllocationTypeOK
    <3>2. ps \in SUBSET Posts
      BY <3>1 DEF Applied
    <3>3. history' = [Stale(ps) EXCEPT ![reverting].reverted = TRUE]
      BY <2>2 DEF RevertWrite
    <3> HIDE DEF ps
    <3>4. DOMAIN Stale(ps) = DOMAIN history
      BY <1>t, <3>2, StaleHistory DEF AllocationTypeOK
    <3>5. history'[r] = Stale(ps)[r]
      BY <2>2, <3>3, <3>4
    <3> QED
      BY <1>s, <3>2, <3>5
  <2>3. CASE \E p \in Posts, t \in Teachers : Assign(p, t)
    <3> PICK p \in Posts, t \in Teachers : Assign(p, t)
      BY <2>3
    <3> DEFINE ps == {p}
    <3>1. ps \in SUBSET Posts /\ history' = Stale(ps)
      BY DEF Assign
    <3> HIDE DEF ps
    <3> QED
      BY <1>s, <3>1
  <2>4. CASE UNCHANGED history
    BY <2>4
  <2>5. FinishApply \/ RevertWrite \/ UNCHANGED history
           \/ \E p \in Posts, t \in Teachers : Assign(p, t)
    BY DEF AllocationNext, allocationVars, Propose, Continue, Choose, LeaveEmpty, SuggestForm,
           Offer, Edit, BeginApply, RevertLook, Resign, SubmitOrReturn
  <2> QED
    <3>1. CASE RevertWrite
      BY <2>2, <3>1
    <3> QED
      BY <2>1, <2>3, <2>4, <2>5, <3>1
<1>2. history[r] \in Applied
  BY <1>t, <1>n DEF AllocationTypeOK
<1>3. holder' = [p \in Posts |-> IF p \in history[r].touched THEN history[r].previous[p]
                                                              ELSE holder[p]]
  BY <1>1 DEF RevertWrite
<1>4. RunTrue(history[r], holder)
  BY <1>t DEF HistoryTrue
<1>5. \A p \in Posts \ history[r].changed : holder'[p] = history[r].before[p]
  BY <1>3, <1>4 DEF RunTrue
<1>6. ASSUME NEW p \in Posts, p[1] \in looked
      PROVE  holder'[p] = holder[p]
  <2>1. history[r].classes \intersect looked = {}
    BY <1>1, <1>t DEF RevertWrite, LookedAt
  <2>2. p[1] \notin history[r].classes
    BY <1>6, <2>1
  <2>3. p \notin history[r].touched
    BY <1>4, <2>2 DEF RunTrue, SnapshotClasses
  <2> QED
    BY <1>3, <2>3
<1> QED
  BY <1>5, <1>6

(* Whatever others write, every run knows what it found and wrote.          *)
THEOREM AllocationsStayTrue == AllocationSpec => []AllocationInv
<1>1. AllocationInv /\ [AllocationNext]_allocationVars => AllocationInv'
  BY AllocationInvStep
<1> QED
  BY <1>1, AllocationInvStarts, PTL DEF AllocationSpec

(* A revert gives every post back as it was, but for those that others      *)
(* wrote since, and leaves the classes alone that were submitted.           *)
THEOREM AllocationsRevert == AllocationSpec => AllocationReverts
<1>1. AllocationInv /\ [AllocationNext]_allocationVars
         => [\A r \in DOMAIN history :
                ~history[r].reverted /\ history'[r].reverted =>
                    /\ \A p \in Posts \ history[r].changed : holder'[p] = history[r].before[p]
                    /\ \A p \in Posts : p[1] \in looked => holder'[p] = holder[p]
            ]_allocationVars
  BY RevertGivesBack
<1> QED
  BY <1>1, AllocationsStayTrue, PTL DEF AllocationSpec, AllocationReverts

-----------------------------------------------------------------------------
(* Hours. *)

PeriodsOf(ps) == UNION {{p} \X (1..Hours(p)) : p \in ps}

LEMMA HoursAreNumbers ==
    ASSUME AllocationTypeOK, NEW p \in Posts
    PROVE  Hours(p) \in Nat
<1>1. /\ plan.hours \in [{Grade[c] : c \in Classes} -> [Subjects -> Nat]]
      /\ p[1] \in Classes /\ p[2] \in Subjects \union {Form}
  BY DEF AllocationTypeOK, Plan, Posts
<1>2. CASE p[2] = Form
  BY <1>2 DEF Hours
<1>3. CASE p[2] \in Subjects
  <2>1. plan.hours[Grade[p[1]]] \in [Subjects -> Nat]
    BY <1>1
  <2> QED
    BY <1>3, <2>1 DEF Hours
<1> QED
  BY <1>1, <1>2, <1>3

LEMMA PostsFinite == IsFiniteSet(Posts)
BY FiniteAssumption, FS_Product, FS_AddElement DEF Posts

LEMMA Countdown == \A n \in Nat : IsFiniteSet(1..n) /\ Cardinality(1..n) = n
<1> SUFFICES ASSUME NEW n \in Nat
             PROVE  IsFiniteSet(1..n) /\ Cardinality(1..n) = n
  OBVIOUS
<1>1. IsFiniteSet(1..n) /\ Cardinality(1..n) = IF 1 > n THEN 0 ELSE n - 1 + 1
  BY FS_Interval
<1> QED
  BY <1>1

LEMMA PeriodsFinite ==
    ASSUME AllocationTypeOK, NEW ps \in SUBSET Posts
    PROVE  /\ IsFiniteSet(PeriodsOf(ps))
           /\ HoursOf(ps) = Cardinality(PeriodsOf(ps)) /\ HoursOf(ps) \in Nat
<1> DEFINE f == [p \in ps |-> {p} \X (1..Hours(p))]
           T == {{p} \X (1..Hours(p)) : p \in ps}
<1>1. IsFiniteSet(ps)
  BY PostsFinite, FS_Subset
<1>2. f \in Surjection(ps, T)
  BY DEF Surjection
<1>3. IsFiniteSet(T)
  BY <1>1, <1>2, FS_Surjection
<1>4. ASSUME NEW p \in ps
      PROVE  IsFiniteSet({p} \X (1..Hours(p)))
  <2>1. IsFiniteSet(1..Hours(p)) /\ IsFiniteSet({p})
    BY HoursAreNumbers, Countdown, FS_Singleton
  <2> QED
    BY <2>1, FS_Product
<1>5. IsFiniteSet(UNION T)
  BY <1>3, <1>4, FS_UNION
<1> QED
  BY <1>5, FS_CardinalityType DEF PeriodsOf, HoursOf

LEMMA HoursGrow ==
    ASSUME AllocationTypeOK, NEW ps \in SUBSET Posts, NEW qs \in SUBSET ps
    PROVE  HoursOf(qs) <= HoursOf(ps)
<1>1. IsFiniteSet(PeriodsOf(ps)) /\ PeriodsOf(qs) \subseteq PeriodsOf(ps)
  BY PeriodsFinite DEF PeriodsOf
<1> QED
  BY <1>1, PeriodsFinite, FS_Subset

LEMMA HoursAdd ==
    ASSUME AllocationTypeOK, NEW ps \in SUBSET Posts, NEW p \in Posts, p \notin ps
    PROVE  HoursOf(ps \union {p}) = HoursOf(ps) + Hours(p)
<1> DEFINE A == PeriodsOf(ps)
           B == {p} \X (1..Hours(p))
<1>1. PeriodsOf(ps \union {p}) = A \union B /\ A \intersect B = {}
  BY DEF PeriodsOf
<1>2. IsFiniteSet(A)
  BY PeriodsFinite
<1>3. IsFiniteSet(B) /\ Cardinality(B) = Hours(p)
  <2>1. Hours(p) \in Nat
    BY HoursAreNumbers
  <2>2. /\ IsFiniteSet(1..Hours(p)) /\ IsFiniteSet({p})
        /\ Cardinality(1..Hours(p)) = Hours(p) /\ Cardinality({p}) = 1
    BY <2>1, Countdown, FS_Singleton
  <2>3. IsFiniteSet(B) /\ Cardinality(B) = Cardinality({p}) * Cardinality(1..Hours(p))
    BY <2>2, FS_Product
  <2> QED
    BY <2>1, <2>2, <2>3
<1>4. Cardinality(PeriodsOf(ps \union {p})) = Cardinality(A) + Cardinality(B)
  <2> HIDE DEF A, B
  <2> QED
    BY <1>1, <1>2, <1>3, TwoParts
<1>5. ps \union {p} \in SUBSET Posts
  OBVIOUS
<1> QED
  BY <1>3, <1>4, <1>5, PeriodsFinite

LEMMA NoHours == HoursOf({}) = 0
<1>1. UNION {{p} \X (1..Hours(p)) : p \in {}} = {}
  OBVIOUS
<1> QED
  BY <1>1, FS_EmptySet DEF HoursOf

LEMMA HoursHold ==
    ASSUME AllocationTypeOK, NEW ps \in SUBSET Posts, NEW p \in ps
    PROVE  Hours(p) <= HoursOf(ps)
<1>1. HoursOf({} \union {p}) = HoursOf({}) + Hours(p)
  BY HoursAdd
<1>2. {} \union {p} \in SUBSET ps
  OBVIOUS
<1> QED
  BY <1>1, <1>2, NoHours, HoursGrow, HoursAreNumbers

(* While the plan stays, so do hours. *)
LEMMA HoursStay ==
    ASSUME plan' = plan
    PROVE  /\ \A p : Hours(p)' = Hours(p)
           /\ Needs' = Needs
           /\ \A ps : HoursOf(ps)' = HoursOf(ps)
<1>1. \A p : Hours(p)' = Hours(p)
  BY DEF Hours
<1>2. Needs' = Needs
  BY <1>1 DEF Needs
<1>3. ASSUME NEW ps
      PROVE  HoursOf(ps)' = HoursOf(ps)
  BY <1>1, Zenon DEF HoursOf
<1> QED
  BY <1>1, <1>2, <1>3

LEMMA LoadNext ==
    ASSUME plan' = plan, NEW t
    PROVE  /\ Given(t)' = {p \in Needs : offer'[p] = t}
           /\ Load(t)' = HoursOf({p \in Needs : offer'[p] = t})
<1>1. Given(t)' = {p \in Needs : offer'[p] = t}
  BY HoursStay DEF Given
<1>2. ASSUME NEW G, G = Given(t)'
      PROVE  Load(t)' = HoursOf(G)'
  BY <1>2 DEF Load, HoursOf
<1> QED
  BY <1>1, <1>2, HoursStay

-----------------------------------------------------------------------------
(* The proposal. *)

(* What is still to be decided has nobody, and was wanted. *)
Undecided ==
    \A p \in todo : offer[p] = Nobody /\ p \in Needs \union FormsWanted(seen.holder)

(* What was decided came no later than what is still to be. *)
InOrder ==
    \A q \in Needs \ todo, p \in Needs \intersect todo : Kept(q) \/ ~Sooner(p, q)

(* The form teachers come last, and only classes without one get one. *)
FormsLast ==
    /\ FormsWanted(seen.holder) \subseteq todo \/ \A p \in todo : p[2] = Form
    /\ \A p \in Posts : p[2] = Form /\ offer[p] # Nobody => p \in FormsWanted(seen.holder)

Sound == LimitKept /\ ScarceFirst /\ ContinuityFirst /\ EvenLoads /\ FormTeacherOnce

ProposalInv == stage = "open" => Undecided /\ InOrder /\ FormsLast /\ Sound

LEMMA NeedsAreTaught ==
    ASSUME AllocationTypeOK
    PROVE  /\ Needs \subseteq Posts
           /\ \A p \in Needs : p[2] # Form /\ Hours(p) \in Nat /\ Hours(p) > 0
           /\ \A ps : ps \subseteq Needs => ps \subseteq Posts
BY HoursAreNumbers DEF Needs, Hours

LEMMA LoadsAreNumbers ==
    ASSUME AllocationTypeOK, NEW t
    PROVE  /\ Given(t) \in SUBSET Posts /\ Given(t) \subseteq Needs
           /\ Load(t) \in Nat /\ Load(t) = HoursOf(Given(t))
<1>1. Given(t) \subseteq Needs /\ Given(t) \in SUBSET Posts
  BY NeedsAreTaught DEF Given
<1> QED
  BY <1>1, PeriodsFinite DEF Load

LEMMA ScarcityIsNumber ==
    ASSUME AllocationTypeOK, NEW p
    PROVE  /\ Qualified(p) \subseteq Teachers /\ Qualified(p) \subseteq seen.active
           /\ Scarcity(p) \in Nat
<1>1. Qualified(p) \subseteq Teachers /\ Qualified(p) \subseteq seen.active
  BY DEF AllocationTypeOK, Qualified
<1> QED
  BY <1>1, FiniteAssumption, FS_Subset, FS_CardinalityType DEF Scarcity

(* While the plan and what was seen stay, so does what is made of them.      *)
LEMMA SeenStays ==
    ASSUME plan' = plan, seen' = seen
    PROVE  /\ \A x : Hours(x)' = Hours(x) /\ Kept(x)' = Kept(x)
           /\ \A x : Qualified(x)' = Qualified(x) /\ Scarcity(x)' = Scarcity(x)
           /\ \A x, y : Sooner(x, y)' = Sooner(x, y)
           /\ Needs' = Needs
           /\ FormsWanted(seen.holder)' = FormsWanted(seen.holder)
           /\ \A ps : HoursOf(ps)' = HoursOf(ps)
<1>2. /\ \A x : Hours(x)' = Hours(x)
      /\ Needs' = Needs
      /\ \A ps : HoursOf(ps)' = HoursOf(ps)
  BY HoursStay
<1>3. \A x : Kept(x)' = Kept(x)
  BY <1>2 DEF Kept
<1>4. \A x : Qualified(x)' = Qualified(x)
  BY DEF Qualified
<1>5. \A x : Scarcity(x)' = Scarcity(x)
  BY <1>4 DEF Scarcity
<1>6. \A x, y : Sooner(x, y)' = Sooner(x, y)
  BY <1>2, <1>5 DEF Sooner
<1>7. FormsWanted(seen.holder)' = FormsWanted(seen.holder)
  BY DEF FormsWanted
<1> QED
  BY <1>2, <1>3, <1>4, <1>5, <1>6, <1>7

(* A decision leaves them alone, *)
LEMMA DecisionFrame ==
    ASSUME NEW p, NEW t, Offer(p, t)
    PROVE  /\ plan' = plan /\ seen' = seen /\ stage' = stage
           /\ \A x : Hours(x)' = Hours(x) /\ Kept(x)' = Kept(x)
           /\ \A x : Qualified(x)' = Qualified(x) /\ Scarcity(x)' = Scarcity(x)
           /\ \A x, y : Sooner(x, y)' = Sooner(x, y)
           /\ Needs' = Needs
           /\ FormsWanted(seen.holder)' = FormsWanted(seen.holder)
           /\ \A ps : HoursOf(ps)' = HoursOf(ps)
<1>1. plan' = plan /\ seen' = seen /\ stage' = stage
  BY DEF Offer
<1> QED
  BY <1>1, SeenStays

(* and gives one teacher one more post. *)
LEMMA DecisionGives ==
    ASSUME AllocationTypeOK, Undecided, NEW p \in todo, NEW t \in Teachers \union {Nobody},
           Offer(p, t)
    PROVE  /\ p \in Posts /\ offer[p] = Nobody /\ todo' = todo \ {p}
           /\ \A x \in Posts : offer'[x] = IF x = p THEN t ELSE offer[x]
           /\ \A u \in Teachers :
                 /\ Given(u)' = IF p \in Needs /\ u = t THEN Given(u) \union {p} ELSE Given(u)
                 /\ p \notin Given(u)
                 /\ Load(u)' = IF p \in Needs /\ u = t THEN Load(u) + Hours(p) ELSE Load(u)
<1>1. p \in Posts /\ offer[p] = Nobody /\ todo' = todo \ {p} /\ offer \in Holders /\ plan' = plan
  BY DEF AllocationTypeOK, Undecided, Offer
<1>2. \A x \in Posts : offer'[x] = IF x = p THEN t ELSE offer[x]
  BY <1>1 DEF Offer, Holders
<1>3. ASSUME NEW u \in Teachers
      PROVE  /\ Given(u)' = IF p \in Needs /\ u = t THEN Given(u) \union {p} ELSE Given(u)
             /\ p \notin Given(u)
             /\ Load(u)' = IF p \in Needs /\ u = t THEN Load(u) + Hours(p) ELSE Load(u)
  <2>1. p \notin Given(u)
    BY <1>1, TeachersAssumption DEF Given
  <2>2. {x \in Needs : offer'[x] = u} =
           IF p \in Needs /\ u = t THEN Given(u) \union {p} ELSE Given(u)
    BY <1>1, <1>2, <2>1, NeedsAreTaught DEF Given
  <2>3. Given(u)' = IF p \in Needs /\ u = t THEN Given(u) \union {p} ELSE Given(u)
    BY <1>1, <2>2, LoadNext
  <2>4. Load(u)' = HoursOf(IF p \in Needs /\ u = t THEN Given(u) \union {p} ELSE Given(u))
    BY <1>1, <2>2, LoadNext
  <2>5. Load(u) = HoursOf(Given(u)) /\ Given(u) \in SUBSET Posts
    BY LoadsAreNumbers
  <2>6. HoursOf(Given(u) \union {p}) = HoursOf(Given(u)) + Hours(p)
    BY <1>1, <2>1, <2>5, HoursAdd
  <2> QED
    BY <2>1, <2>3, <2>4, <2>5, <2>6
<1> QED
  BY <1>1, <1>2, <1>3

(* What decides a subject, *)
Decides(p, t) ==
    /\ Due(p) /\ p \in todo /\ Offer(p, t)
    /\ \/ t \in Fitting(p) /\ t = plan.last[p]
       \/ t \in Lightest(p) /\ plan.last[p] \notin Fitting(p)
       \/ t = Nobody /\ Fitting(p) = {} 

(* and a form teacher. *)
Suggests(p, t) ==
    /\ p \in todo /\ p[2] = Form /\ Offer(p, t)
    /\ \A q \in todo : q[2] = Form
    /\ \/ t \in Teachers \ Taken
       \/ t = Nobody /\ MostInClass(p[1]) = {}

LEMMA DecisionCases ==
    ASSUME AllocationTypeOK, NEW p \in todo,
           Continue(p) \/ Choose(p) \/ LeaveEmpty(p) \/ SuggestForm(p)
    PROVE  \E t \in Teachers \union {Nobody} : Decides(p, t) \/ Suggests(p, t)
<1>1. p \in Posts /\ seen.active \subseteq Teachers
  BY DEF AllocationTypeOK
<1>2. Fitting(p) \subseteq Teachers /\ Lightest(p) \subseteq Teachers
  BY <1>1, FittingTeachers
<1>3. CASE Continue(p)
  BY <1>2, <1>3 DEF Continue, Decides
<1>4. CASE Choose(p)
  BY <1>2, <1>4 DEF Choose, Decides
<1>5. CASE LeaveEmpty(p)
  BY <1>5 DEF LeaveEmpty, Decides
<1>6. CASE SuggestForm(p)
  BY <1>1, <1>6 DEF SuggestForm, Suggests, MostInClass
<1> QED
  BY <1>3, <1>4, <1>5, <1>6

LEMMA DecidedFits ==
    ASSUME AllocationTypeOK, Undecided, NEW p, NEW t, Decides(p, t)
    PROVE  /\ p \in todo /\ p \in Needs /\ p \in Posts /\ t \in Teachers \union {Nobody}
           /\ t \in Teachers => Load(t) + Hours(p) <= plan.limit /\ t \in Qualified(p)
           /\ Load(t)' \in Nat \/ t = Nobody
<1>1. p \in todo /\ p \in Posts /\ p[2] # Form
  BY DEF Decides, Due, AllocationTypeOK
<1>2. p \in Needs
  BY <1>1 DEF Undecided, FormsWanted
<1>3. t \in Fitting(p) \/ t = Nobody
  BY DEF Decides, Lightest
<1>4. Fitting(p) \subseteq Teachers
  BY <1>1, FittingTeachers
<1>5. t \in Teachers => Load(t) + Hours(p) <= plan.limit /\ t \in Qualified(p)
  BY <1>3, TeachersAssumption DEF Fitting, Fits
<1>6. t \in Teachers => Load(t)' \in Nat
  <2>1. Offer(p, t) /\ t \in Teachers \union {Nobody}
    BY <1>3, <1>4 DEF Decides
  <2>2. t \in Teachers => Load(t)' = Load(t) + Hours(p)
    BY <1>1, <1>2, <2>1, DecisionGives
  <2> QED
    BY <1>2, <2>2, LoadsAreNumbers, NeedsAreTaught
<1> QED
  BY <1>1, <1>2, <1>3, <1>4, <1>5, <1>6

(* Order. *)
LEMMA OrderStep ==
    ASSUME AllocationTypeOK, Undecided, InOrder, FormsLast, NEW p, NEW t,
           t \in Teachers \union {Nobody}, Decides(p, t) \/ Suggests(p, t)
    PROVE  Undecided' /\ InOrder' /\ FormsLast'
<1>1. p \in todo /\ Offer(p, t)
  BY DEF Decides, Suggests
<1>2. /\ p \in Posts /\ offer[p] = Nobody /\ todo' = todo \ {p} /\ todo \subseteq Posts
      /\ \A x \in Posts : offer'[x] = IF x = p THEN t ELSE offer[x]
  BY <1>1, DecisionGives DEF AllocationTypeOK
<1>3. /\ \A x : Kept(x)' = Kept(x)
      /\ \A x, y : Sooner(x, y)' = Sooner(x, y)
      /\ Needs' = Needs
      /\ FormsWanted(seen.holder)' = FormsWanted(seen.holder)
  BY <1>1, DecisionFrame
<1>4. Undecided'
  BY <1>2, <1>3 DEF Undecided
<1>5. InOrder'
  <2> SUFFICES ASSUME NEW q \in Needs, q \notin todo', NEW x \in Needs, x \in todo'
               PROVE  Kept(q) \/ ~Sooner(x, q)
    BY <1>3 DEF InOrder
  <2>1. CASE q # p
    BY <1>2, <2>1 DEF InOrder
  <2>2. CASE q = p
    <3>1. p[2] # Form /\ x[2] # Form
      BY <2>2, NeedsAreTaught
    <3>2. Due(p)
      BY <3>1 DEF Decides, Suggests
    <3> QED
      BY <1>2, <2>2, <3>1, <3>2 DEF Due
  <2> QED
    BY <2>1, <2>2
<1>6. FormsLast'
  <2>1. FormsWanted(seen.holder) \subseteq todo' \/ \A x \in todo' : x[2] = Form
    <3>1. CASE \A x \in todo : x[2] = Form
      BY <1>2, <3>1
    <3>2. CASE /\ FormsWanted(seen.holder) \subseteq todo
               /\ ~(\A x \in todo : x[2] = Form)
      <4>1. p[2] # Form
        BY <3>2 DEF Decides, Due, Suggests
      <4> QED
        BY <1>2, <3>2, <4>1 DEF FormsWanted
    <3> QED
      BY <3>1, <3>2 DEF FormsLast
  <2>2. \A x \in Posts : x[2] = Form /\ offer'[x] # Nobody => x \in FormsWanted(seen.holder)
    BY <1>1, <1>2, NeedsAreTaught DEF FormsLast, Undecided
  <2> QED
    BY <1>3, <2>1, <2>2 DEF FormsLast
<1> QED
  BY <1>4, <1>5, <1>6

(* The limit. *)
LEMMA LimitStep ==
    ASSUME AllocationTypeOK, Undecided, LimitKept, NEW p, NEW t,
           t \in Teachers \union {Nobody}, Decides(p, t) \/ Suggests(p, t)
    PROVE  LimitKept'
<1>1. p \in todo /\ Offer(p, t)
  BY DEF Decides, Suggests
<1>2. plan' = plan /\ \A x : Kept(x)' = Kept(x)
  BY <1>1, DecisionFrame
<1> SUFFICES ASSUME NEW u \in Teachers, Load(u)' > plan.limit
             PROVE  \A x \in Given(u)' : Kept(x)
  BY <1>2 DEF LimitKept
<1>3. /\ Given(u)' = IF p \in Needs /\ u = t THEN Given(u) \union {p} ELSE Given(u)
      /\ Load(u)' = IF p \in Needs /\ u = t THEN Load(u) + Hours(p) ELSE Load(u)
  BY <1>1, DecisionGives
<1>4. ~(p \in Needs /\ u = t)
  <2> SUFFICES ASSUME p \in Needs, u = t
               PROVE  FALSE
    OBVIOUS
  <2>1. Decides(p, t)
    BY NeedsAreTaught DEF Suggests
  <2>2. Load(t) + Hours(p) <= plan.limit
    BY <2>1, DecidedFits
  <2>3. Load(t) \in Nat /\ Hours(p) \in Nat /\ plan.limit \in Nat
    BY LoadsAreNumbers, NeedsAreTaught DEF AllocationTypeOK, Plan
  <2> QED
    BY <1>3, <2>2, <2>3
<1> QED
  BY <1>3, <1>4 DEF LimitKept

(* Continuity. *)
LEMMA ContinuityStep ==
    ASSUME AllocationTypeOK, Undecided, ContinuityFirst, NEW p, NEW t,
           t \in Teachers \union {Nobody}, Decides(p, t) \/ Suggests(p, t)
    PROVE  ContinuityFirst'
<1>1. p \in todo /\ Offer(p, t)
  BY DEF Decides, Suggests
<1>2. /\ plan' = plan /\ Needs' = Needs
      /\ \A x : Kept(x)' = Kept(x) /\ Qualified(x)' = Qualified(x) /\ Hours(x)' = Hours(x)
  BY <1>1, DecisionFrame
<1>3. /\ p \in Posts /\ todo' = todo \ {p}
      /\ \A x \in Posts : offer'[x] = IF x = p THEN t ELSE offer[x]
  BY <1>1, DecisionGives
<1> SUFFICES ASSUME NEW x \in Needs, x \notin todo', ~Kept(x), NEW u, u = plan.last[x],
                    u \in Qualified(x), u # offer'[x], Fits(u, x)'
             PROVE  FALSE
  BY <1>2 DEF ContinuityFirst, Decided
<1>4. u \in Teachers /\ x \in Posts /\ Hours(x) \in Nat /\ Hours(p) \in Nat
  BY <1>3, ScarcityIsNumber, NeedsAreTaught, HoursAreNumbers
<1>5. Load(u)' = IF p \in Needs /\ u = t THEN Load(u) + Hours(p) ELSE Load(u)
  BY <1>1, <1>4, DecisionGives
<1>6. Load(u) \in Nat /\ plan.limit \in Nat
  BY LoadsAreNumbers DEF AllocationTypeOK, Plan
<1>7. Fits(u, x)
  <2>1. Load(u)' + Hours(x) <= plan.limit
    BY <1>2 DEF Fits
  <2> QED
    BY <1>4, <1>5, <1>6, <2>1 DEF Fits
<1>8. x = p
  BY <1>3, <1>4, <1>7 DEF ContinuityFirst, Decided
<1>9. Decides(p, t)
  BY <1>8, NeedsAreTaught DEF Suggests
<1>10. u \in Fitting(p)
  BY <1>7, <1>8 DEF Fitting
<1>11. t = u
  BY <1>8, <1>9, <1>10 DEF Decides
<1> QED
  BY <1>3, <1>8, <1>11

(* Scarcity. *)
Dearer(t, p) == {q \in Given(t) : Kept(q) \/ Scarcity(q) <= Scarcity(p)}

LEMMA ScarceStep ==
    ASSUME AllocationTypeOK, Undecided, InOrder, ScarceFirst, NEW p, NEW t,
           t \in Teachers \union {Nobody}, Decides(p, t) \/ Suggests(p, t)
    PROVE  ScarceFirst'
<1>1. p \in todo /\ Offer(p, t)
  BY DEF Decides, Suggests
<1>2. /\ plan' = plan /\ Needs' = Needs
      /\ \A x : Kept(x)' = Kept(x) /\ Qualified(x)' = Qualified(x) /\ Hours(x)' = Hours(x)
      /\ \A x : Scarcity(x)' = Scarcity(x)
      /\ \A ps : HoursOf(ps)' = HoursOf(ps)
  BY <1>1, DecisionFrame
<1>3. /\ p \in Posts /\ todo' = todo \ {p} /\ offer[p] = Nobody
      /\ \A x \in Posts : offer'[x] = IF x = p THEN t ELSE offer[x]
  BY <1>1, DecisionGives
<1> SUFFICES ASSUME NEW x \in Needs, x \notin todo', offer'[x] = Nobody, NEW u \in Qualified(x),
                    NEW D, D = Dearer(u, x)'
             PROVE  Hours(x) + HoursOf(D) > plan.limit
  <2>1. ASSUME NEW x \in Needs, x \notin todo', offer'[x] = Nobody, NEW u \in Qualified(x)
        PROVE  Hours(x)' + HoursOf({q \in Given(u) : Kept(q) \/ Scarcity(q) <= Scarcity(x)})'
                  > plan'.limit
    <3>1. ASSUME NEW D, D = Dearer(u, x)'
          PROVE  HoursOf({q \in Given(u) : Kept(q) \/ Scarcity(q) <= Scarcity(x)})' = HoursOf(D)
      <4>1. HoursOf({q \in Given(u) : Kept(q) \/ Scarcity(q) <= Scarcity(x)})' = HoursOf(D)'
        BY <3>1 DEF HoursOf, Dearer
      <4> QED
        BY <1>2, <4>1
    <3>2. ASSUME NEW D, D = Dearer(u, x)'
          PROVE  Hours(x) + HoursOf(D) > plan.limit
      BY <2>1, <3>2
    <3> QED
      BY <1>2, <3>1, <3>2
  <2> QED
    BY <1>2, <2>1 DEF ScarceFirst, Decided
<1>4. u \in Teachers /\ x \in Posts /\ Hours(x) \in Nat /\ Hours(p) \in Nat
  BY <1>3, ScarcityIsNumber, NeedsAreTaught, HoursAreNumbers
<1>5. Given(u)' = IF p \in Needs /\ u = t THEN Given(u) \union {p} ELSE Given(u)
  BY <1>1, <1>4, DecisionGives
<1>6. D = {q \in Given(u)' : Kept(q) \/ Scarcity(q) <= Scarcity(x)}
  BY <1>2 DEF Dearer
<1>7. Given(u) \in SUBSET Posts /\ D \in SUBSET Posts
  BY <1>3, <1>5, <1>6, LoadsAreNumbers
<1>8. Dearer(u, x) \in SUBSET D /\ plan.limit \in Nat
  BY <1>5, <1>6 DEF Dearer, AllocationTypeOK, Plan
<1>9. HoursOf(Dearer(u, x)) <= HoursOf(D) /\ HoursOf(D) \in Nat /\ HoursOf(Dearer(u, x)) \in Nat
  <2>1. Dearer(u, x) \in SUBSET Posts
    BY <1>7, <1>8
  <2> QED
    BY <1>7, <1>8, <2>1, HoursGrow, PeriodsFinite
<1>10. Hours(x) + HoursOf(Dearer(u, x)) > plan.limit
  <2>1. CASE x # p
    BY <1>3, <1>4, <2>1 DEF ScarceFirst, Dearer, Decided
  <2>2. CASE x = p
    <3>1. Decides(p, t)
      BY <2>2, NeedsAreTaught DEF Suggests
    <3>2. t = Nobody /\ Fitting(p) = {}
      <4>1. t = Nobody
        BY <1>3, <2>2
      <4>2. Fitting(p) \subseteq Teachers /\ Lightest(p) \subseteq Teachers
        BY <1>3, FittingTeachers
      <4> QED
        BY <3>1, <4>1, <4>2, TeachersAssumption DEF Decides
    <3>3. ~(Load(u) + Hours(p) <= plan.limit)
      BY <2>2, <3>2 DEF Fitting, Fits
    <3>4. Given(u) \subseteq Dearer(u, x)
      <4> SUFFICES ASSUME NEW q \in Given(u), ~Kept(q)
                   PROVE  Scarcity(q) <= Scarcity(p)
        BY <2>2 DEF Dearer
      <4>1. q \in Needs /\ offer[q] = u /\ u # Nobody
        BY <1>4, TeachersAssumption DEF Given
      <4>2. q \notin todo
        BY <4>1 DEF Undecided
      <4>3. ~Sooner(p, q)
        BY <1>1, <2>2, <4>1, <4>2 DEF InOrder
      <4> QED
        BY <4>3, ScarcityIsNumber DEF Sooner
    <3>5. Dearer(u, x) = Given(u)
      BY <3>4 DEF Dearer
    <3> QED
      BY <1>4, <1>8, <2>2, <3>3, <3>5, LoadsAreNumbers
  <2> QED
    BY <2>1, <2>2
<1> QED
  BY <1>4, <1>8, <1>9, <1>10

(* Even weeks. *)
AlikeTeachers ==
    /\ \A t \in Teachers : t \in seen.active /\ plan.qualified[t] = Subjects
    /\ \A p, q \in Needs : Hours(p) = Hours(q) /\ plan.last[p] = Nobody /\ ~Kept(p)

LEMMA EvenWeeksStep ==
    ASSUME AllocationTypeOK, Undecided, EvenLoads, NEW p, NEW t,
           t \in Teachers \union {Nobody}, Decides(p, t) \/ Suggests(p, t)
    PROVE  EvenLoads'
<1>1. p \in todo /\ Offer(p, t)
  BY DEF Decides, Suggests
<1>2. /\ plan' = plan /\ Needs' = Needs /\ seen' = seen
      /\ \A x : Kept(x)' = Kept(x) /\ Hours(x)' = Hours(x)
  BY <1>1, DecisionFrame
<1> SUFFICES ASSUME AlikeTeachers, NEW v \in Teachers, NEW u \in Teachers, NEW x \in Needs
             PROVE  Load(v)' <= Load(u)' + Hours(x)
  BY <1>2 DEF EvenLoads, AlikeTeachers
<1>3. /\ Load(v)' = IF p \in Needs /\ v = t THEN Load(v) + Hours(p) ELSE Load(v)
      /\ Load(u)' = IF p \in Needs /\ u = t THEN Load(u) + Hours(p) ELSE Load(u)
  BY <1>1, DecisionGives
<1>4. Load(u) \in Nat /\ Load(v) \in Nat /\ Hours(x) \in Nat /\ plan.limit \in Nat
  BY LoadsAreNumbers, NeedsAreTaught DEF AllocationTypeOK, Plan
<1>5. Load(v) <= Load(u) + Hours(x)
  BY DEF AlikeTeachers, EvenLoads
<1>6. CASE ~(p \in Needs /\ v = t)
  <2>1. p \in Needs => Hours(p) \in Nat
    BY NeedsAreTaught
  <2> QED
    BY <1>3, <1>4, <1>5, <1>6, <2>1
<1>7. CASE p \in Needs /\ v = t
  <2>1. Hours(p) = Hours(x) /\ plan.last[p] = Nobody
    BY <1>7 DEF AlikeTeachers
  <2>2. CASE u = t
    BY <1>4, <1>7, <2>2, <1>3, <2>1
  <2>3. CASE u # t
    <3>1. Decides(p, t) /\ p \in Posts /\ p[2] # Form
      BY <1>7, NeedsAreTaught DEF Suggests
    <3>2. Fitting(p) \subseteq Teachers
      BY <3>1, FittingTeachers
    <3>3. t \in Lightest(p)
      BY <1>7, <2>1, <3>1, <3>2, TeachersAssumption DEF Decides
    <3>4. u \in Qualified(p)
      BY <3>1 DEF AlikeTeachers, Qualified, Posts
    <3>5. CASE u \in Fitting(p)
      <4>1. ~(Load(u) < Load(t))
        BY <3>3, <3>5 DEF Lightest, Lighter
      <4> QED
        BY <1>3, <1>4, <1>7, <2>1, <2>3, <4>1
    <3>6. CASE u \notin Fitting(p)
      <4>1. ~(Load(u) + Hours(p) <= plan.limit)
        BY <3>4, <3>6 DEF Fitting, Fits
      <4>2. Load(t) + Hours(p) <= plan.limit
        BY <3>3 DEF Lightest, Fitting, Fits
      <4> QED
        BY <1>3, <1>4, <1>7, <2>1, <2>3, <4>1, <4>2
    <3> QED
      BY <3>5, <3>6
  <2> QED
    BY <2>2, <2>3
<1> QED
  BY <1>6, <1>7

(* Form teachers.  Of the teachers that are free one has most periods.       *)
LEMMA MostExists ==
    ASSUME AllocationTypeOK, NEW c, NEW t \in Teachers \ Taken, InClass(t, c) > 0
    PROVE  MostInClass(c) # {}
<1> DEFINE S == Teachers \ Taken
           R == {x \in S \X S : InClass(x[1], c) > InClass(x[2], c)}
<1>1. \A u : InClass(u, c) \in Nat
  <2> SUFFICES ASSUME NEW u
               PROVE  InClass(u, c) \in Nat
    OBVIOUS
  <2>1. {p \in Given(u) : p[1] = c} \in SUBSET Posts
    BY LoadsAreNumbers
  <2> QED
    BY <2>1, PeriodsFinite DEF InClass
<1>2. IsFiniteSet(S) /\ S # {}
  BY FiniteAssumption, FS_Subset
<1>3. \A a, b \in S : <<a, b>> \in R <=> InClass(a, c) > InClass(b, c)
  OBVIOUS
<1>4. /\ \A a, b, d \in S : <<a, b>> \in R /\ <<b, d>> \in R => <<a, d>> \in R
      /\ \A a \in S : <<a, a>> \notin R
  <2> HIDE DEF S, R
  <2> QED
    BY <1>1, <1>3
<1>5. \E m \in S : \A a \in S : <<a, m>> \notin R
  <2> HIDE DEF S, R
  <2> QED
    BY <1>2, <1>4, MinimalExists
<1>6. PICK m \in S : \A a \in S : ~(InClass(a, c) > InClass(m, c))
  <2> HIDE DEF S, R
  <2> QED
    BY <1>3, <1>5
<1>7. \A a \in S : InClass(a, c) <= InClass(m, c)
  BY <1>1, <1>6
<1>8. InClass(m, c) > 0
  BY <1>1, <1>7
<1> QED
  BY <1>6, <1>7, <1>8 DEF MostInClass

Forms == {p \in Posts : p[2] = Form}

LEMMA TakenForm ==
    ASSUME NEW q \in Forms
    PROVE  (IF offer[q] = Nobody THEN seen.holder[q] ELSE offer[q]) \in Taken
BY DEF Taken, Forms

LEMMA TakenStays ==
    ASSUME AllocationTypeOK, Undecided, FormsLast, NEW p, NEW t,
           t \in Teachers \union {Nobody}, Decides(p, t) \/ Suggests(p, t)
    PROVE  Taken \subseteq Taken' \union {Nobody}
<1>1. p \in todo /\ Offer(p, t)
  BY DEF Decides, Suggests
<1>2. seen' = seen /\ \A x \in Posts : offer'[x] = IF x = p THEN t ELSE offer[x]
  BY <1>1, DecisionFrame, DecisionGives
<1> SUFFICES ASSUME NEW q \in Forms,
                    NEW v, v = IF offer[q] = Nobody THEN seen.holder[q] ELSE offer[q], v # Nobody
             PROVE  v \in Taken'
  BY DEF Taken, Forms
<1>3. q # p
  <2> SUFFICES ASSUME q = p
               PROVE  FALSE
    OBVIOUS
  <2>1. offer[p] = Nobody /\ p[2] = Form /\ p \in FormsWanted(seen.holder)
    BY <1>1, NeedsAreTaught DEF Undecided, Forms
  <2> QED
    BY <2>1 DEF FormsWanted
<1>4. v = IF offer'[q] = Nobody THEN seen'.holder[q] ELSE offer'[q]
  BY <1>2, <1>3 DEF Forms
<1> QED
  BY <1>4 DEF Taken, Forms

LEMMA FormStep ==
    ASSUME AllocationTypeOK, Undecided, FormsLast, FormTeacherOnce, NEW p, NEW t,
           t \in Teachers \union {Nobody}, Decides(p, t) \/ Suggests(p, t)
    PROVE  FormTeacherOnce'
<1>1. p \in todo /\ Offer(p, t)
  BY DEF Decides, Suggests
<1>2. /\ seen' = seen /\ Needs' = Needs
      /\ FormsWanted(seen.holder)' = FormsWanted(seen.holder)
  BY <1>1, DecisionFrame
<1>3. /\ p \in Posts /\ todo' = todo \ {p} /\ offer[p] = Nobody
      /\ \A x \in Posts : offer'[x] = IF x = p THEN t ELSE offer[x]
  BY <1>1, DecisionGives
<1> SUFFICES ASSUME NEW x \in Posts, NEW q \in Posts, x[2] = Form, q[2] = Form, x \notin todo'
             PROVE  /\ offer'[x] # Nobody /\ x # q => offer'[x] \notin {offer'[q], seen.holder[q]}
                    /\ offer'[x] = Nobody /\ x \in FormsWanted(seen.holder) =>
                           \A s \in Needs : s[1] = x[1] => offer'[s] \in Taken' \union {Nobody}
  BY <1>2 DEF FormTeacherOnce, Decided
<1>4. Taken \subseteq Taken' \union {Nobody}
  BY TakenStays
<1>5. p[2] = Form => Suggests(p, t) /\ p \in FormsWanted(seen.holder) /\ seen.holder[p] = Nobody
  BY <1>1, NeedsAreTaught DEF Decides, Due, Undecided, FormsWanted
<1>6. \A s \in Needs : s # p /\ p[2] = Form => offer'[s] = offer[s]
  BY <1>3, NeedsAreTaught
<1>7. ASSUME offer'[x] # Nobody, x # q
      PROVE  offer'[x] \notin {offer'[q], seen.holder[q]}
  <2>1. CASE x # p /\ q # p
    BY <1>3, <1>7, <2>1 DEF FormTeacherOnce, Decided
  <2>2. CASE x # p /\ q = p
    <3>1. offer[x] # Nobody /\ x \in Forms
      BY <1>3, <1>7, <2>2 DEF Forms
    <3>2. offer[x] \in Taken
      BY <3>1, TakenForm
    <3>3. t # offer[x]
      BY <1>5, <2>2, <3>1, <3>2 DEF Suggests
    <3>4. seen.holder[q] = Nobody
      BY <1>5, <2>2
    <3> QED
      BY <1>3, <2>2, <3>1, <3>3, <3>4
  <2>3. CASE x = p
    <3>1. t \in Teachers \ Taken /\ t # Nobody
      BY <1>3, <1>5, <1>7, <2>3 DEF Suggests
    <3>2. (IF offer[q] = Nobody THEN seen.holder[q] ELSE offer[q]) \in Taken
      BY TakenForm DEF Forms
    <3>3. offer[q] # Nobody => seen.holder[q] = Nobody
      BY DEF FormsLast, FormsWanted
    <3>4. offer'[x] = t /\ offer'[q] = offer[q]
      BY <1>3, <1>7, <2>3
    <3> QED
      BY <3>1, <3>2, <3>3, <3>4
  <2> QED
    BY <2>1, <2>2, <2>3
<1>8. ASSUME offer'[x] = Nobody, x \in FormsWanted(seen.holder), NEW s \in Needs, s[1] = x[1]
      PROVE  offer'[s] \in Taken' \union {Nobody}
  <2>1. s \in Posts /\ s[2] # Form
    BY NeedsAreTaught
  <2>2. p[2] = Form
    BY <1>1, <1>3, <1>8 DEF FormsLast, Decides, Due, Suggests
  <2>3. offer'[s] = offer[s]
    BY <1>3, <2>1, <2>2
  <2>4. CASE x # p
    <3>1. offer[s] \in Taken \union {Nobody}
      BY <1>3, <1>8, <2>4 DEF FormTeacherOnce, Decided
    <3> QED
      BY <1>4, <2>3, <3>1
  <2>5. CASE x = p
    <3>1. MostInClass(x[1]) = {}
      BY <1>3, <1>5, <1>8, <2>2, <2>5, TeachersAssumption DEF Suggests
    <3> SUFFICES ASSUME offer[s] # Nobody, offer[s] \notin Taken
                 PROVE  FALSE
      BY <1>4, <2>3
    <3>2. PICK u \in Teachers : u = offer[s]
      BY <2>1 DEF AllocationTypeOK, Holders
    <3>3. s \in {r \in Given(u) : r[1] = x[1]} /\ {r \in Given(u) : r[1] = x[1]} \in SUBSET Posts
      BY <1>8, <3>2, LoadsAreNumbers DEF Given
    <3>4. Hours(s) <= InClass(u, x[1]) /\ InClass(u, x[1]) \in Nat
      BY <3>3, HoursHold, PeriodsFinite DEF InClass
    <3>5. InClass(u, x[1]) > 0
      BY <3>4, NeedsAreTaught
    <3> QED
      BY <3>1, <3>2, <3>5, MostExists
  <2> QED
    BY <2>4, <2>5
<1> QED
  BY <1>7, <1>8

(* A new proposal starts with the assignments that are kept. *)
LEMMA ProposeSound ==
    ASSUME AllocationTypeOK, Propose
    PROVE  Undecided' /\ InOrder' /\ FormsLast' /\ Sound'
<1>1. /\ plan' = plan /\ seen'.holder = holder /\ seen'.active = active
      /\ todo' = {p \in Needs : offer'[p] = Nobody} \union FormsWanted(holder)
      /\ \A p \in Posts :
            offer'[p] = IF p \in Needs /\ holder[p] \in active THEN holder[p] ELSE Nobody
  BY DEF Propose
<1>2. Needs' = Needs /\ \A x : Hours(x)' = Hours(x)
  BY <1>1, HoursStay
<1>3. FormsWanted(seen.holder)' = FormsWanted(holder)
  BY <1>1 DEF FormsWanted
<1>4. Nobody \notin active /\ Needs \subseteq Posts /\ \A p \in Needs : p[2] # Form
  BY TeachersAssumption, NeedsAreTaught DEF AllocationTypeOK
<1>5. \A p \in Needs : offer'[p] # Nobody => Kept(p)'
  BY <1>1, <1>2, <1>4 DEF Kept
<1>6. \A p \in FormsWanted(holder) : p \in Posts /\ p[2] = Form
  BY DEF FormsWanted
<1>7. \A p \in Posts : p[2] = Form => offer'[p] = Nobody
  BY <1>1, <1>4
<1>8. Undecided'
  BY <1>1, <1>2, <1>3, <1>6, <1>7 DEF Undecided
<1>9. InOrder'
  <2>1. \A q \in Needs : q \notin todo' => offer'[q] # Nobody
    BY <1>1
  <2> QED
    BY <1>2, <1>5, <2>1 DEF InOrder
<1>10. FormsLast'
  BY <1>1, <1>3, <1>7 DEF FormsLast
<1>11. \A t \in Teachers : \A p \in Given(t)' : Kept(p)' /\ p \in Needs
  <2> SUFFICES ASSUME NEW t \in Teachers, NEW p, p \in Given(t)'
               PROVE  Kept(p)' /\ p \in Needs
    OBVIOUS
  <2>1. Given(t)' = {x \in Needs : offer'[x] = t}
    BY <1>1, LoadNext
  <2> QED
    BY <1>5, <2>1, TeachersAssumption
<1>12. LimitKept'
  BY <1>11 DEF LimitKept
<1>13. ScarceFirst'
  BY <1>1, <1>2 DEF ScarceFirst, Decided
<1>14. ContinuityFirst'
  BY <1>1, <1>2, <1>5 DEF ContinuityFirst, Decided
<1>15. EvenLoads'
  <2> SUFFICES ASSUME \A p \in Needs : ~Kept(p)', NEW t \in Teachers, NEW u \in Teachers,
                      NEW p \in Needs
               PROVE  Load(t)' <= Load(u)' + Hours(p)
    BY <1>2 DEF EvenLoads
  <2>1. ASSUME NEW v \in Teachers
        PROVE  Load(v)' = 0
    <3>1. /\ Given(v)' = {x \in Needs : offer'[x] = v}
          /\ Load(v)' = HoursOf({x \in Needs : offer'[x] = v})
      BY <1>1, LoadNext
    <3>2. {x \in Needs : offer'[x] = v} = {}
      BY <1>11, <3>1
    <3> QED
      BY <3>1, <3>2, NoHours
  <2> QED
    BY <2>1, NeedsAreTaught
<1>16. FormTeacherOnce'
  BY <1>1, <1>3, <1>7 DEF FormTeacherOnce, Decided
<1> QED
  BY <1>8, <1>9, <1>10, <1>12, <1>13, <1>14, <1>15, <1>16 DEF Sound

(* Nothing else touches an open proposal. *)
LEMMA ProposalStays ==
    ASSUME ProposalInv, stage' = "open" => stage = "open" /\ UNCHANGED <<plan, seen, todo, offer>>
    PROVE  ProposalInv'
<1> SUFFICES ASSUME stage = "open", UNCHANGED <<plan, seen, todo, offer>>,
                    Undecided, InOrder, FormsLast, Sound
             PROVE  Undecided' /\ InOrder' /\ FormsLast' /\ Sound'
  BY DEF ProposalInv
<1>1. plan' = plan /\ seen' = seen /\ todo' = todo /\ offer' = offer
  OBVIOUS
<1>s. /\ \A x : Hours(x)' = Hours(x) /\ Kept(x)' = Kept(x)
      /\ \A x : Qualified(x)' = Qualified(x) /\ Scarcity(x)' = Scarcity(x)
      /\ \A x, y : Sooner(x, y)' = Sooner(x, y)
      /\ Needs' = Needs
      /\ FormsWanted(seen.holder)' = FormsWanted(seen.holder)
      /\ \A ps : HoursOf(ps)' = HoursOf(ps)
  BY <1>1, SeenStays
<1>g. \A t : Given(t)' = Given(t) /\ Load(t)' = Load(t)
  <2> SUFFICES ASSUME NEW t
               PROVE  Given(t)' = Given(t) /\ Load(t)' = Load(t)
    OBVIOUS
  <2>1. Given(t) = {p \in Needs : offer'[p] = t}
    BY <1>1 DEF Given
  <2> QED
    BY <1>1, <2>1, LoadNext DEF Load
<1>2. Undecided' /\ FormsLast'
  BY <1>1, <1>s DEF Undecided, FormsLast
<1>3. InOrder'
  BY <1>1, <1>s DEF InOrder
<1>4. LimitKept' /\ EvenLoads'
  BY <1>1, <1>s, <1>g DEF LimitKept, EvenLoads, Sound
<1>5. ScarceFirst'
  <2> SUFFICES ASSUME NEW x \in Needs, x \notin todo, offer[x] = Nobody, NEW u \in Qualified(x),
                      NEW D, D = Dearer(u, x)'
               PROVE  Hours(x) + HoursOf(D) > plan.limit
    <3>1. ASSUME NEW x \in Needs, x \notin todo, offer[x] = Nobody, NEW u \in Qualified(x)
          PROVE  Hours(x)' + HoursOf({q \in Given(u) : Kept(q) \/ Scarcity(q) <= Scarcity(x)})'
                    > plan'.limit
      <4>1. ASSUME NEW D, D = Dearer(u, x)'
            PROVE  HoursOf({q \in Given(u) : Kept(q) \/ Scarcity(q) <= Scarcity(x)})' = HoursOf(D)
        <5>1. HoursOf({q \in Given(u) : Kept(q) \/ Scarcity(q) <= Scarcity(x)})' = HoursOf(D)'
          BY <4>1 DEF HoursOf, Dearer
        <5> QED
          BY <1>s, <5>1
      <4>2. ASSUME NEW D, D = Dearer(u, x)'
            PROVE  Hours(x) + HoursOf(D) > plan.limit
        BY <3>1, <4>2
      <4> QED
        BY <1>1, <1>s, <4>1, <4>2
    <3> QED
      BY <1>1, <1>s, <3>1 DEF ScarceFirst, Decided
  <2>1. D = Dearer(u, x)
    BY <1>s, <1>g DEF Dearer
  <2> QED
    BY <2>1 DEF ScarceFirst, Decided, Dearer, Sound
<1>6. ContinuityFirst'
  BY <1>1, <1>s, <1>g DEF ContinuityFirst, Decided, Fits, Sound
<1>7. FormTeacherOnce'
  <2>1. Taken' = Taken
    BY <1>1 DEF Taken
  <2> QED
    BY <1>1, <1>s, <2>1 DEF FormTeacherOnce, Decided, Sound
<1> QED
  BY <1>2, <1>3, <1>4, <1>5, <1>6, <1>7 DEF Sound

LEMMA ProposalStep ==
    ASSUME AllocationTypeOK, ProposalInv, [AllocationNext]_allocationVars
    PROVE  ProposalInv'
<1>1. CASE Propose
  BY <1>1, ProposeSound DEF ProposalInv
<1>2. ASSUME NEW p \in todo, Continue(p) \/ Choose(p) \/ LeaveEmpty(p) \/ SuggestForm(p)
      PROVE  ProposalInv'
  <2>1. PICK t \in Teachers \union {Nobody} : Decides(p, t) \/ Suggests(p, t)
    BY <1>2, DecisionCases
  <2>2. stage = "open" /\ Undecided /\ InOrder /\ FormsLast /\ Sound
    BY DEF ProposalInv, AllocationTypeOK
  <2>3. Undecided' /\ InOrder' /\ FormsLast'
    BY <2>1, <2>2, OrderStep
  <2>4. LimitKept' /\ ContinuityFirst'
    BY <2>1, <2>2, LimitStep, ContinuityStep DEF Sound
  <2>5. ScarceFirst'
    BY <2>1, <2>2, ScarceStep DEF Sound
  <2>6. EvenLoads'
    BY <2>1, <2>2, EvenWeeksStep DEF Sound
  <2>7. FormTeacherOnce'
    BY <2>1, <2>2, FormStep DEF Sound
  <2> QED
    BY <2>3, <2>4, <2>5, <2>6, <2>7 DEF ProposalInv, Sound
<1>3. CASE \/ \E p \in Posts, t \in Teachers \union {Nobody} : Edit(p, t)
           \/ BeginApply \/ FinishApply
  BY <1>3, ProposalStays DEF Edit, BeginApply, FinishApply
<1>4. CASE \/ \E r \in DOMAIN history : RevertLook(r)
           \/ RevertWrite
           \/ \E p \in Posts, t \in Teachers : Assign(p, t)
           \/ \E t \in Teachers : Resign(t)
           \/ \E c \in Classes : SubmitOrReturn(c)
  BY <1>4, ProposalStays DEF RevertLook, RevertWrite, Assign, Resign, SubmitOrReturn
<1>5. CASE UNCHANGED allocationVars
  BY <1>5, ProposalStays DEF allocationVars
<1> QED
  BY <1>1, <1>2, <1>3, <1>4, <1>5 DEF AllocationNext

(* A proposal nobody has edited keeps the limit, leaves a subject empty only *)
(* where scarce ones fill the weeks, keeps last year's teachers where there  *)
(* is room, gives alike teachers even weeks and nobody two forms.            *)
THEOREM ProposalsAreSound == AllocationSpec => []AllocationSound
<1>1. AllocationInit => ProposalInv
  BY DEF AllocationInit, ProposalInv
<1>2. AllocationInv /\ ProposalInv /\ [AllocationNext]_allocationVars => ProposalInv'
  BY ProposalStep DEF AllocationInv
<1>3. AllocationInv /\ ProposalInv => AllocationSound
  BY DEF AllocationInv, ProposalInv, Sound, AllocationSound
<1> QED
  BY <1>1, <1>2, <1>3, AllocationsStayTrue, PTL DEF AllocationSpec

=============================================================================
