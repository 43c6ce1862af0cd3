SPECIFICATION Spec
CONSTANTS
  s = s r = r f1 = f1 f2 = f2 k = k v = v w = w d1 = d1 d2 = d2 c1 = c1 c2 = c2 q1 = q1
  FileOrder <- TwoFiles
  Key = {k}
  Value = {v, w}
  Absent = Absent
  NoFile = NoFile
  Member = {s, r}
  Publisher = {s}
  Receiver = r
  Folder = {d1, d2}
  ChannelId = {c1, c2}
  PackageId = {q1}
  NoId = NoId
  NoPlan = NoPlan
  Earlier <- FirstFiles
  Origin <- Origins
  MaxTorn = 1
  MaxWrites = 1
  ImportFault = {"io", "undo", "crash"}
INVARIANT RegisteredChannelsExist
PROPERTIES PackagesAreWhole AppliedAsShown FailedImportChangesNothing ImportKeepsLinks
SYMMETRY Symmetry
CHECK_DEADLOCK FALSE
