SPECIFICATION MCSpec
CONSTANTS
    Parts = {"cars", "reports"}
    c1 = c1
    c2 = c2
    p1 = p1
    p2 = p2
    u1 = u1
    u2 = u2
    Groups = {g1}
    Principals = {p1, p2}
    Home = {}
    UserIds = {u1}
    NoUser = NoUser
    Custom = {}
    SeededRoles = {r2}
    Profiles <- MCChanging
    Standard = {}
    Cars = {c1, c2}
    CarUser <- MCTwoCars
    Api = Api
SYMMETRY MCSymmetry
INVARIANTS AccessOnlyWhileApproved ApprovedHasAccess BindingInv ReportsAgree
PROPERTIES LossForeseen GrantedByAdminsOnly
CHECK_DEADLOCK FALSE
