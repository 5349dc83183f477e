CONSTANTS
    r1 = r1  r2 = r2  s1 = s1  a1 = a1  a2 = a2  n1 = n1  n2 = n2  t1 = t1  t2 = t2
    Roles = {r1, r2}
    Servers = {s1}
    Artifacts = {a1, a2}
    Names = {n1, n2}
    Txs = {t1, t2}
    RoleLimit = 2
    MaxVersion = 2
    MaxGrants = 2
    None = None
SPECIFICATION Spec
SYMMETRY Symmetry
INVARIANTS RevokedReportComplete UpdateReportExact RenameReportTrue NoMutualWait
