---------------------------- MODULE MCAttendance ----------------------------
(* One class taught by one teacher; its audience is the guardian, a second  *)
(* audience is the staff.                                                   *)
EXTENDS Attendance, TLC

CONSTANTS tea, adm, gua, cls, staff, r1, r2, s1, s2

TheMembers == cls :> {gua} @@ staff :> {tea}
TheGuardians == s1 :> {gua}
TheRules == {{cls}, {staff}}
TheDuties == {{}, {cls}}
Perms == Permutations({r1, r2})
=============================================================================
