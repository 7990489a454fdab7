\* Safety with crashes of both processes, three orders in batches of two.
CONSTANTS
    Orders = {o1, o2, o3}
    Absent = Absent
    BatchLimit = 2
    MaxCrashes = 1
SYMMETRY OrderSymmetry
SPECIFICATION Spec
INVARIANTS
    TypeOK
    NoSecondEffect
    StampedIsLogged
    CommittedIsMarked
    WorkFollowsBooking
    RepublishBounded
\* Orders are finitely many: once every event is through, relay and worker only wait.
CHECK_DEADLOCK FALSE
