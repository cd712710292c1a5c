SPECIFICATION PlanningSpec
CONSTANTS
    Unset = Unset
    Mediums = {m1, m2}
    Streams = {t1, t2}
    Groups = {g1}
    Combinations = {c1, c2}
    Genders = {boy, girl}
    DefaultCapacity = 2
    Inputs <- Families
    Teachers = {ann, ben, cy}
    Classes = {1, 2, 3}
    Subjects = {art, music}
    Grade <- GradeOf
    Form = Form
    Nobody = Nobody
    Plans <- Requests
CHECK_DEADLOCK FALSE
INVARIANTS SectionsWhenFull BalancedClasses RulesKept AllocationSound
PROPERTIES AllocationReverts
