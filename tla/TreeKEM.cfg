CONSTANTS
    Depth = 2
    NumPeople = 5
    MaxCommits = 3
    MaxMishaps = 1
    Active = {0, 1, 2, 4}
    Unlucky = {1}
SPECIFICATION Spec
INVARIANTS   OutsidersExcluded Heals
CHECK_DEADLOCK FALSE
