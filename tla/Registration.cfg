SPECIFICATION SignupSpec
CONSTANTS
    Users = {u1}
    Images = {i1, i2, i3}
    Jobs = {j1, j2}
    Details = {d1, d2}
    Posts = {r1, r2}
    Null = Null
    Limit = 2
INVARIANTS
    AtMostLimit
    OneMain
    SignupComplete
    OneUniversity
PROPERTY MainKept
SYMMETRY Symmetry
CHECK_DEADLOCK FALSE
