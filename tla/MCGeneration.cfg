SPECIFICATION Spec
CONSTANTS
    maths = maths
    science = science
    music = music
    mia = mia
    sam = sam
    lee = lee
    hall = hall
    lab1 = lab1
    lab2 = lab2
    None = None
    Others = {9}
    Days = {1, 2}
    Rows <- MCRows
    Classes <- MCClasses
    Subjects <- MCSubjects
    Teachers <- MCTeachers
    Rooms <- MCRooms
    Schools <- MCSchools
INVARIANTS GridConsistent LessonsFit GapsAreReal
PROPERTIES NoLessonLost
