CONSTANTS
    tea = tea
    adm = adm
    gua = gua
    cls = cls
    staff = staff
    r1 = r1
    r2 = r2
    s1 = s1
    s2 = s2
    Users = {tea, adm, gua}
    Admins = {adm}
    Teachers = {tea}
    Audiences = {cls, staff}
    Members <- TheMembers
    Notes = {n1}
    RuleSets <- TheRules
    Duties <- TheDuties
    Requests = {r1, r2}
    MaxFaults = 1
    None = None
    Classes = {cls}
    Days = {d1}
    Students = {s1}
    Guardians <- TheGuardians
    Registers = {x1}
SYMMETRY Perms
SPECIFICATION Spec
INVARIANTS RegistersConsistent AbsencesTold NoticesConsistent
PROPERTIES SentIsFinal
