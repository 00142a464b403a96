SPECIFICATION Spec
CONSTANTS
 Docs = {d}
 Tasks = {t}
 Modes = {TRUE, FALSE}
 MaxWrites = 2
 MaxCommits = 3
 MaxFaults = 2
INVARIANTS TypeOK NeverCorrupt AckedSurvives NothingLeaks
PROPERTY ImplementsAtomicStore
