CONSTANTS
  None = None
  s1 = s1
  s2 = s2
  s3 = s3
  q1 = q1
  q2 = q2
  u1 = u1
  Sessions = {s1, s2}
  Queues = {q1}
  Users = {u1}
  AgentUser = agent
  QueueOf <- OneQueue
  Roles = {role1, role2}
  UserOf <- OneUser
  Attachments = {}
  MaxInside = 2
  MaxRefreshes = 2
SPECIFICATION Spec
SYMMETRY Symmetry
CONSTRAINT FewRefreshes
VIEW ButForLogs
INVARIANT TypeOK
INVARIANT HeldMeansRefreshed
INVARIANT UsesManagedCredentials
INVARIANT MapHasFiles
INVARIANT NoStrayKill
CHECK_DEADLOCK FALSE
