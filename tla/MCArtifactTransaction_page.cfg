CONSTANTS
  clean = clean
  mask = mask
  t1 = t1
  t2 = t2
  NoTxn = NoTxn
  Initial = Initial
  Absent = Absent
  NoBackup = NoBackup
  Core <- CleanOnly
  Path <- CleanAndMask
  Txn <- TwoEdits
SPECIFICATION Spec
SYMMETRY EditSymmetry
INVARIANTS CrashConsistent ServedConsistent
PROPERTIES BackupOnlyConsumed ImplementsAtomicPage
