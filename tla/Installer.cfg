SPECIFICATION Spec
CONSTANTS
    Installers = {p1, p2}
    Files = {exe, dll}
    Attempts = 2
    Absent = Absent
    NoFile = NoFile
SYMMETRY Symmetric
INVARIANTS StagingIsOwned AnswerIsTrue OneInstalls
PROPERTIES NeverOverwritten ImplementsProgramsFolder
