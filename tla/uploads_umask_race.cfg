\* Two uploads in chmodLikeCreate at once.
CONSTANTS
    Host = {h1}
    Kind = {records}
    ClassKind = class
    Body <- OneBody
    Huge <- NoHuge
    ClassOf <- NoClass
    Token = {}
    Req = {r1, r2}
    Temp = {t1, t2, t3}
    Perms = {"gr", "ow"}
    InitUmask = {"ow"}
    Flags = {TRUE}
    MaxOrphans = 1
    None = None
    Bogus = Bogus
SPECIFICATION Spec
INVARIANTS
    ModeLikeCreate
