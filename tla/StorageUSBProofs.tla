-------------------------- MODULE StorageUSBProofs --------------------------
(***************************************************************************)
(* The inductive invariant of StorageUSB: what the object believes of the  *)
(* stick, for all modes and whatever the others do between two commands.   *)
(* In the lemma about a step, <1>1 and <1>2 are its types and <1>3 to      *)
(* <1>8 the other conjuncts of IInv after it.                              *)
(***************************************************************************)
EXTENDS StorageUSB, TLAPS

USE DEF objectVars, localVars, monitorVars, plugVars, mountVars, modeVars,
        otherVars, vars, States, EjectStates, Paths, Sticks, MountPlaces,
        EjectPlaces, Careful

\* The invariant holds when the object has been constructed.
LEMMA InitEstablishes == Init => IInv
BY ModesAssumption, NamesAssumption DEF Init, IInv, TypeOK, Flags,
   MountedHasPartition, NodeKnown, MountedHasPath, PlaceInv, MonitorInv,
   OneMount

LEMMA StepFindPartition == ASSUME IInv, FindPartition PROVE IInv'
<1>1. (Flags \subseteq BOOLEAN)'
  BY NamesAssumption DEF IInv, TypeOK, Flags, FindPartition, HasPartition,
     Finish, StateAfter
<1>2. TypeOK'
  BY <1>1 DEF IInv, TypeOK, FindPartition, HasPartition, Finish, StateAfter
<1>3. MountedHasPartition'
  BY NamesAssumption DEF IInv, TypeOK, Flags, MountedHasPartition, PlaceInv,
     FindPartition, HasPartition, Finish, StateAfter
<1>4. NodeKnown'
  BY NamesAssumption DEF IInv, TypeOK, Flags, NodeKnown, PlaceInv,
     FindPartition, HasPartition, Finish, StateAfter
<1>5. MountedHasPath'
  BY NamesAssumption DEF IInv, TypeOK, Flags, MountedHasPath, PlaceInv,
     FindPartition, HasPartition, Finish, StateAfter
<1>6. PlaceInv'
  BY NamesAssumption DEF IInv, TypeOK, Flags, PlaceInv, NodeKnown,
     FindPartition, HasPartition, Finish, StateAfter
<1>7. MonitorInv'
  BY NamesAssumption DEF IInv, TypeOK, Flags, MonitorInv, PlaceInv,
     NodeKnown, FindPartition, HasPartition, Finish, StateAfter
<1>8. OneMount'
  BY NamesAssumption DEF IInv, TypeOK, Flags, OneMount, FindPartition,
     HasPartition, Finish, StateAfter
<1> QED
  BY <1>1, <1>2, <1>3, <1>4, <1>5, <1>6, <1>7,
     <1>8 DEF IInv

LEMMA StepLookUp == ASSUME IInv, LookUp PROVE IInv'
<1>1. (Flags \subseteq BOOLEAN)'
  BY NamesAssumption DEF IInv, TypeOK, Flags, LookUp, Answers, Seen, Finish,
     StateAfter
<1>2. TypeOK'
  BY <1>1 DEF IInv, TypeOK, LookUp, Answers, Seen, Finish, StateAfter
<1>3. MountedHasPartition'
  BY NamesAssumption DEF IInv, TypeOK, Flags, MountedHasPartition, PlaceInv,
     LookUp, Answers, Seen, Finish, StateAfter
<1>4. NodeKnown'
  BY NamesAssumption DEF IInv, TypeOK, Flags, NodeKnown, PlaceInv, LookUp,
     Answers, Seen, Finish, StateAfter
<1>5. MountedHasPath'
  BY NamesAssumption DEF IInv, TypeOK, Flags, MountedHasPath, PlaceInv,
     LookUp, Answers, Seen, Finish, StateAfter
<1>6. PlaceInv'
  BY NamesAssumption DEF IInv, TypeOK, Flags, PlaceInv, NodeKnown, LookUp,
     Answers, Seen, Finish, StateAfter
<1>7. MonitorInv'
  BY NamesAssumption DEF IInv, TypeOK, Flags, MonitorInv, PlaceInv,
     NodeKnown, LookUp, Answers, Seen, Finish, StateAfter
<1>8. OneMount'
  BY NamesAssumption DEF IInv, TypeOK, Flags, OneMount, LookUp, Answers,
     Seen, Finish, StateAfter
<1> QED
  BY <1>1, <1>2, <1>3, <1>4, <1>5, <1>6, <1>7,
     <1>8 DEF IInv

LEMMA StepCheckMounted == ASSUME IInv, CheckMounted PROVE IInv'
<1>1. (Flags \subseteq BOOLEAN)'
  BY NamesAssumption DEF IInv, TypeOK, Flags, CheckMounted, Seen, Goto
<1>2. TypeOK'
  BY <1>1 DEF IInv, TypeOK, CheckMounted, Seen, Goto
<1>3. MountedHasPartition'
  BY NamesAssumption DEF IInv, TypeOK, Flags, MountedHasPartition, PlaceInv,
     CheckMounted, Seen, Goto
<1>4. NodeKnown'
  BY NamesAssumption DEF IInv, TypeOK, Flags, NodeKnown, PlaceInv,
     CheckMounted, Seen, Goto
<1>5. MountedHasPath'
  BY NamesAssumption DEF IInv, TypeOK, Flags, MountedHasPath, PlaceInv,
     CheckMounted, Seen, Goto
<1>6. PlaceInv'
  BY NamesAssumption DEF IInv, TypeOK, Flags, PlaceInv, NodeKnown,
     CheckMounted, Seen, Goto
<1>7. MonitorInv'
  BY NamesAssumption DEF IInv, TypeOK, Flags, MonitorInv, PlaceInv,
     NodeKnown, CheckMounted, Seen, Goto
<1>8. OneMount'
  BY NamesAssumption DEF IInv, TypeOK, Flags, OneMount, CheckMounted, Seen,
     Goto
<1> QED
  BY <1>1, <1>2, <1>3, <1>4, <1>5, <1>6, <1>7,
     <1>8 DEF IInv

LEMMA StepUnMount == ASSUME IInv, UnMount PROVE IInv'
<1>1. (Flags \subseteq BOOLEAN)'
  BY NamesAssumption DEF IInv, TypeOK, Flags, UnMount, unMountWithPrivilege,
     unMountWithoutPrivilege, umount2, Seen, Goto
<1>2. TypeOK'
  BY <1>1 DEF IInv, TypeOK, UnMount, unMountWithPrivilege,
     unMountWithoutPrivilege, umount2, Seen, Goto
<1>3. MountedHasPartition'
  BY NamesAssumption DEF IInv, TypeOK, Flags, MountedHasPartition, PlaceInv,
     UnMount, unMountWithPrivilege, unMountWithoutPrivilege, umount2, Seen,
     Goto
<1>4. NodeKnown'
  BY NamesAssumption DEF IInv, TypeOK, Flags, NodeKnown, PlaceInv, UnMount,
     unMountWithPrivilege, unMountWithoutPrivilege, umount2, Seen, Goto
<1>5. MountedHasPath'
  BY NamesAssumption DEF IInv, TypeOK, Flags, MountedHasPath, PlaceInv,
     UnMount, unMountWithPrivilege, unMountWithoutPrivilege, umount2, Seen,
     Goto
<1>6. PlaceInv'
  BY NamesAssumption DEF IInv, TypeOK, Flags, PlaceInv, NodeKnown, UnMount,
     unMountWithPrivilege, unMountWithoutPrivilege, umount2, Seen, Goto
<1>7. MonitorInv'
  BY NamesAssumption DEF IInv, TypeOK, Flags, MonitorInv, PlaceInv,
     NodeKnown, UnMount, unMountWithPrivilege, unMountWithoutPrivilege,
     umount2, Seen, Goto
<1>8. OneMount'
  BY NamesAssumption DEF IInv, TypeOK, Flags, OneMount, UnMount,
     unMountWithPrivilege, unMountWithoutPrivilege, umount2, Seen, Goto
<1> QED
  BY <1>1, <1>2, <1>3, <1>4, <1>5, <1>6, <1>7,
     <1>8 DEF IInv

LEMMA StepMountWithPrivilege == ASSUME IInv, MountWithPrivilege PROVE IInv'
<1>1. (Flags \subseteq BOOLEAN)'
  BY NamesAssumption DEF IInv, TypeOK, Flags, MountWithPrivilege,
     HasPartition, Mounted, Finish, StateAfter, Goto
<1>2. TypeOK'
  BY <1>1 DEF IInv, TypeOK, MountWithPrivilege, HasPartition, Mounted,
     Finish, StateAfter, Goto
<1>3. MountedHasPartition'
  BY NamesAssumption DEF IInv, TypeOK, Flags, MountedHasPartition, PlaceInv,
     MountWithPrivilege, HasPartition, Mounted, Finish, StateAfter, Goto
<1>4. NodeKnown'
  BY NamesAssumption DEF IInv, TypeOK, Flags, NodeKnown, PlaceInv,
     MountWithPrivilege, HasPartition, Mounted, Finish, StateAfter, Goto
<1>5. MountedHasPath'
  BY NamesAssumption DEF IInv, TypeOK, Flags, MountedHasPath, PlaceInv,
     MountWithPrivilege, HasPartition, Mounted, Finish, StateAfter, Goto
<1>6. PlaceInv'
  BY NamesAssumption DEF IInv, TypeOK, Flags, PlaceInv, NodeKnown,
     MountWithPrivilege, HasPartition, Mounted, Finish, StateAfter, Goto
<1>7. MonitorInv'
  BY NamesAssumption DEF IInv, TypeOK, Flags, MonitorInv, PlaceInv,
     NodeKnown, MountWithPrivilege, HasPartition, Mounted, Finish,
     StateAfter, Goto
<1>8. OneMount'
  BY NamesAssumption DEF IInv, TypeOK, Flags, OneMount, MountWithPrivilege,
     HasPartition, Mounted, Finish, StateAfter, Goto
<1> QED
  BY <1>1, <1>2, <1>3, <1>4, <1>5, <1>6, <1>7,
     <1>8 DEF IInv

LEMMA StepMountWithoutPrivilege ==
  ASSUME IInv, MountWithoutPrivilege PROVE IInv'
<1>1. (Flags \subseteq BOOLEAN)'
  BY NamesAssumption DEF IInv, TypeOK, Flags, MountWithoutPrivilege,
     HasPartition, SystemMounts, Finish, StateAfter, Goto
<1>2. TypeOK'
  BY <1>1 DEF IInv, TypeOK, MountWithoutPrivilege, HasPartition,
     SystemMounts, Finish, StateAfter, Goto
<1>3. MountedHasPartition'
  BY NamesAssumption DEF IInv, TypeOK, Flags, MountedHasPartition, PlaceInv,
     MountWithoutPrivilege, HasPartition, SystemMounts, Finish, StateAfter,
     Goto
<1>4. NodeKnown'
  BY NamesAssumption DEF IInv, TypeOK, Flags, NodeKnown, PlaceInv,
     MountWithoutPrivilege, HasPartition, SystemMounts, Finish, StateAfter,
     Goto
<1>5. MountedHasPath'
  BY NamesAssumption DEF IInv, TypeOK, Flags, MountedHasPath, PlaceInv,
     MountWithoutPrivilege, HasPartition, SystemMounts, Finish, StateAfter,
     Goto
<1>6. PlaceInv'
  BY NamesAssumption DEF IInv, TypeOK, Flags, PlaceInv, NodeKnown,
     MountWithoutPrivilege, HasPartition, SystemMounts, Finish, StateAfter,
     Goto
<1>7. MonitorInv'
  BY NamesAssumption DEF IInv, TypeOK, Flags, MonitorInv, PlaceInv,
     NodeKnown, MountWithoutPrivilege, HasPartition, SystemMounts, Finish,
     StateAfter, Goto
<1>8. OneMount'
  BY NamesAssumption DEF IInv, TypeOK, Flags, OneMount,
     MountWithoutPrivilege, HasPartition, SystemMounts, Finish, StateAfter,
     Goto
<1> QED
  BY <1>1, <1>2, <1>3, <1>4, <1>5, <1>6, <1>7,
     <1>8 DEF IInv

LEMMA StepLookAgain == ASSUME IInv, LookAgain PROVE IInv'
<1>1. (Flags \subseteq BOOLEAN)'
  BY NamesAssumption DEF IInv, TypeOK, Flags, LookAgain, Answers, Seen,
     Mounted, Finish, StateAfter
<1>2. TypeOK'
  BY <1>1 DEF IInv, TypeOK, LookAgain, Answers, Seen, Mounted, Finish,
     StateAfter
<1>3. MountedHasPartition'
  BY NamesAssumption DEF IInv, TypeOK, Flags, MountedHasPartition, PlaceInv,
     LookAgain, Answers, Seen, Mounted, Finish, StateAfter
<1>4. NodeKnown'
  BY NamesAssumption DEF IInv, TypeOK, Flags, NodeKnown, PlaceInv,
     LookAgain, Answers, Seen, Mounted, Finish, StateAfter
<1>5. MountedHasPath'
  BY NamesAssumption DEF IInv, TypeOK, Flags, MountedHasPath, PlaceInv,
     LookAgain, Answers, Seen, Mounted, Finish, StateAfter
<1>6. PlaceInv'
  BY NamesAssumption DEF IInv, TypeOK, Flags, PlaceInv, NodeKnown,
     LookAgain, Answers, Seen, Mounted, Finish, StateAfter
<1>7. MonitorInv'
  BY NamesAssumption DEF IInv, TypeOK, Flags, MonitorInv, PlaceInv,
     NodeKnown, LookAgain, Answers, Seen, Mounted, Finish, StateAfter
<1>8. OneMount'
  BY NamesAssumption DEF IInv, TypeOK, Flags, OneMount, LookAgain, Answers,
     Seen, Mounted, Finish, StateAfter
<1> QED
  BY <1>1, <1>2, <1>3, <1>4, <1>5, <1>6, <1>7,
     <1>8 DEF IInv

LEMMA StepPlug == ASSUME IInv, Plug PROVE IInv'
<1>1. (Flags \subseteq BOOLEAN)'
  BY NamesAssumption DEF IInv, TypeOK, Flags, Plug
<1>2. TypeOK'
  BY <1>1 DEF IInv, TypeOK, Plug
<1>3. MountedHasPartition'
  BY NamesAssumption DEF IInv, TypeOK, Flags, MountedHasPartition, PlaceInv,
     Plug
<1>4. NodeKnown'
  BY NamesAssumption DEF IInv, TypeOK, Flags, NodeKnown, PlaceInv, Plug
<1>5. MountedHasPath'
  BY NamesAssumption DEF IInv, TypeOK, Flags, MountedHasPath, PlaceInv, Plug
<1>6. PlaceInv'
  BY NamesAssumption DEF IInv, TypeOK, Flags, PlaceInv, NodeKnown, Plug
<1>7. MonitorInv'
  BY NamesAssumption DEF IInv, TypeOK, Flags, MonitorInv, PlaceInv,
     NodeKnown, Plug
<1>8. OneMount'
  BY NamesAssumption DEF IInv, TypeOK, Flags, OneMount, Plug
<1> QED
  BY <1>1, <1>2, <1>3, <1>4, <1>5, <1>6, <1>7,
     <1>8 DEF IInv

LEMMA StepPull == ASSUME IInv, Pull PROVE IInv'
<1>1. (Flags \subseteq BOOLEAN)'
  BY NamesAssumption DEF IInv, TypeOK, Flags, Pull
<1>2. TypeOK'
  BY <1>1 DEF IInv, TypeOK, Pull
<1>3. MountedHasPartition'
  BY NamesAssumption DEF IInv, TypeOK, Flags, MountedHasPartition, PlaceInv,
     Pull
<1>4. NodeKnown'
  BY NamesAssumption DEF IInv, TypeOK, Flags, NodeKnown, PlaceInv, Pull
<1>5. MountedHasPath'
  BY NamesAssumption DEF IInv, TypeOK, Flags, MountedHasPath, PlaceInv, Pull
<1>6. PlaceInv'
  BY NamesAssumption DEF IInv, TypeOK, Flags, PlaceInv, NodeKnown, Pull
<1>7. MonitorInv'
  BY NamesAssumption DEF IInv, TypeOK, Flags, MonitorInv, PlaceInv,
     NodeKnown, Pull
<1>8. OneMount'
  BY NamesAssumption DEF IInv, TypeOK, Flags, OneMount, Pull
<1> QED
  BY <1>1, <1>2, <1>3, <1>4, <1>5, <1>6, <1>7,
     <1>8 DEF IInv

LEMMA StepAutoMount == ASSUME IInv, AutoMount PROVE IInv'
<1>1. (Flags \subseteq BOOLEAN)'
  BY NamesAssumption DEF IInv, TypeOK, Flags, AutoMount, SystemMounts
<1>2. TypeOK'
  BY <1>1 DEF IInv, TypeOK, AutoMount, SystemMounts
<1>3. MountedHasPartition'
  BY NamesAssumption DEF IInv, TypeOK, Flags, MountedHasPartition, PlaceInv,
     AutoMount, SystemMounts
<1>4. NodeKnown'
  BY NamesAssumption DEF IInv, TypeOK, Flags, NodeKnown, PlaceInv,
     AutoMount, SystemMounts
<1>5. MountedHasPath'
  BY NamesAssumption DEF IInv, TypeOK, Flags, MountedHasPath, PlaceInv,
     AutoMount, SystemMounts
<1>6. PlaceInv'
  BY NamesAssumption DEF IInv, TypeOK, Flags, PlaceInv, NodeKnown,
     AutoMount, SystemMounts
<1>7. MonitorInv'
  BY NamesAssumption DEF IInv, TypeOK, Flags, MonitorInv, PlaceInv,
     NodeKnown, AutoMount, SystemMounts
<1>8. OneMount'
  BY NamesAssumption DEF IInv, TypeOK, Flags, OneMount, AutoMount,
     SystemMounts
<1> QED
  BY <1>1, <1>2, <1>3, <1>4, <1>5, <1>6, <1>7,
     <1>8 DEF IInv

LEMMA StepCleanUp == ASSUME IInv, CleanUp PROVE IInv'
<1>1. (Flags \subseteq BOOLEAN)'
  BY NamesAssumption DEF IInv, TypeOK, Flags, CleanUp
<1>2. TypeOK'
  BY <1>1 DEF IInv, TypeOK, CleanUp
<1>3. MountedHasPartition'
  BY NamesAssumption DEF IInv, TypeOK, Flags, MountedHasPartition, PlaceInv,
     CleanUp
<1>4. NodeKnown'
  BY NamesAssumption DEF IInv, TypeOK, Flags, NodeKnown, PlaceInv, CleanUp
<1>5. MountedHasPath'
  BY NamesAssumption DEF IInv, TypeOK, Flags, MountedHasPath, PlaceInv,
     CleanUp
<1>6. PlaceInv'
  BY NamesAssumption DEF IInv, TypeOK, Flags, PlaceInv, NodeKnown, CleanUp
<1>7. MonitorInv'
  BY NamesAssumption DEF IInv, TypeOK, Flags, MonitorInv, PlaceInv,
     NodeKnown, CleanUp
<1>8. OneMount'
  BY NamesAssumption DEF IInv, TypeOK, Flags, OneMount, CleanUp
<1> QED
  BY <1>1, <1>2, <1>3, <1>4, <1>5, <1>6, <1>7,
     <1>8 DEF IInv

LEMMA StepInsertCheck == ASSUME IInv, InsertCheck PROVE IInv'
<1>1. (Flags \subseteq BOOLEAN)'
  BY NamesAssumption DEF IInv, TypeOK, Flags, InsertCheck, insertCheck,
     Enumerates
<1>2. TypeOK'
  BY <1>1 DEF IInv, TypeOK, InsertCheck, insertCheck, Enumerates
<1>3. MountedHasPartition'
  BY NamesAssumption DEF IInv, TypeOK, Flags, MountedHasPartition, PlaceInv,
     InsertCheck, insertCheck, Enumerates
<1>4. NodeKnown'
  BY NamesAssumption DEF IInv, TypeOK, Flags, NodeKnown, PlaceInv,
     InsertCheck, insertCheck, Enumerates
<1>5. MountedHasPath'
  BY NamesAssumption DEF IInv, TypeOK, Flags, MountedHasPath, PlaceInv,
     InsertCheck, insertCheck, Enumerates
<1>6. PlaceInv'
  BY NamesAssumption DEF IInv, TypeOK, Flags, PlaceInv, NodeKnown,
     InsertCheck, insertCheck, Enumerates
<1>7. MonitorInv'
  BY NamesAssumption DEF IInv, TypeOK, Flags, MonitorInv, PlaceInv,
     NodeKnown, InsertCheck, insertCheck, Enumerates
<1>8. OneMount'
  BY NamesAssumption DEF IInv, TypeOK, Flags, OneMount, InsertCheck,
     insertCheck, Enumerates
<1> QED
  BY <1>1, <1>2, <1>3, <1>4, <1>5, <1>6, <1>7,
     <1>8 DEF IInv

LEMMA StepMountDevice == ASSUME IInv, MountDevice PROVE IInv'
<1>1. (Flags \subseteq BOOLEAN)'
  BY NamesAssumption DEF IInv, TypeOK, Flags, MountDevice, mountDevice,
     insertCheck, Enumerates
<1>2. TypeOK'
  BY <1>1 DEF IInv, TypeOK, MountDevice, mountDevice, insertCheck,
     Enumerates
<1>3. MountedHasPartition'
  BY NamesAssumption DEF IInv, TypeOK, Flags, MountedHasPartition, PlaceInv,
     MountDevice, mountDevice, insertCheck, Enumerates
<1>4. NodeKnown'
  BY NamesAssumption DEF IInv, TypeOK, Flags, NodeKnown, PlaceInv,
     MountDevice, mountDevice, insertCheck, Enumerates
<1>5. MountedHasPath'
  BY NamesAssumption DEF IInv, TypeOK, Flags, MountedHasPath, PlaceInv,
     MountDevice, mountDevice, insertCheck, Enumerates
<1>6. PlaceInv'
  BY NamesAssumption DEF IInv, TypeOK, Flags, PlaceInv, NodeKnown,
     MountDevice, mountDevice, insertCheck, Enumerates
<1>7. MonitorInv'
  BY NamesAssumption DEF IInv, TypeOK, Flags, MonitorInv, PlaceInv,
     NodeKnown, MountDevice, mountDevice, insertCheck, Enumerates
<1>8. OneMount'
  BY NamesAssumption DEF IInv, TypeOK, Flags, OneMount, MountDevice,
     mountDevice, insertCheck, Enumerates
<1> QED
  BY <1>1, <1>2, <1>3, <1>4, <1>5, <1>6, <1>7,
     <1>8 DEF IInv

LEMMA StepisUnsafeEject == ASSUME IInv, isUnsafeEject PROVE IInv'
<1>1. (Flags \subseteq BOOLEAN)'
  BY NamesAssumption DEF IInv, TypeOK, Flags, isUnsafeEject, Seen
<1>2. TypeOK'
  BY <1>1 DEF IInv, TypeOK, isUnsafeEject, Seen
<1>3. MountedHasPartition'
  BY NamesAssumption DEF IInv, TypeOK, Flags, MountedHasPartition, PlaceInv,
     isUnsafeEject, Seen
<1>4. NodeKnown'
  BY NamesAssumption DEF IInv, TypeOK, Flags, NodeKnown, PlaceInv,
     isUnsafeEject, Seen
<1>5. MountedHasPath'
  BY NamesAssumption DEF IInv, TypeOK, Flags, MountedHasPath, PlaceInv,
     isUnsafeEject, Seen
<1>6. PlaceInv'
  BY NamesAssumption DEF IInv, TypeOK, Flags, PlaceInv, NodeKnown,
     isUnsafeEject, Seen
<1>7. MonitorInv'
  BY NamesAssumption DEF IInv, TypeOK, Flags, MonitorInv, PlaceInv,
     NodeKnown, isUnsafeEject, Seen
<1>8. OneMount'
  BY NamesAssumption DEF IInv, TypeOK, Flags, OneMount, isUnsafeEject, Seen
<1> QED
  BY <1>1, <1>2, <1>3, <1>4, <1>5, <1>6, <1>7,
     <1>8 DEF IInv

LEMMA StepejectDevice == ASSUME IInv, ejectDevice PROVE IInv'
<1>1. (Flags \subseteq BOOLEAN)'
  BY NamesAssumption DEF IInv, TypeOK, Flags, ejectDevice, Goto
<1>2. TypeOK'
  BY <1>1 DEF IInv, TypeOK, ejectDevice, Goto
<1>3. MountedHasPartition'
  BY NamesAssumption DEF IInv, TypeOK, Flags, MountedHasPartition, PlaceInv,
     ejectDevice, Goto
<1>4. NodeKnown'
  BY NamesAssumption DEF IInv, TypeOK, Flags, NodeKnown, PlaceInv,
     ejectDevice, Goto
<1>5. MountedHasPath'
  BY NamesAssumption DEF IInv, TypeOK, Flags, MountedHasPath, PlaceInv,
     ejectDevice, Goto
<1>6. PlaceInv'
  BY NamesAssumption DEF IInv, TypeOK, Flags, PlaceInv, NodeKnown,
     ejectDevice, Goto
<1>7. MonitorInv'
  BY NamesAssumption DEF IInv, TypeOK, Flags, MonitorInv, PlaceInv,
     NodeKnown, ejectDevice, Goto
<1>8. OneMount'
  BY NamesAssumption DEF IInv, TypeOK, Flags, OneMount, ejectDevice, Goto
<1> QED
  BY <1>1, <1>2, <1>3, <1>4, <1>5, <1>6, <1>7,
     <1>8 DEF IInv

LEMMA StepEjectUnMount == ASSUME IInv, EjectUnMount PROVE IInv'
<1>1. (Flags \subseteq BOOLEAN)'
  BY NamesAssumption DEF IInv, TypeOK, Flags, EjectUnMount, EjectFailed,
     unMountWithPrivilege, unMountWithoutPrivilege, umount2, Seen, Goto
<1>2. TypeOK'
  BY <1>1 DEF IInv, TypeOK, EjectUnMount, EjectFailed, unMountWithPrivilege,
     unMountWithoutPrivilege, umount2, Seen, Goto
<1>3. MountedHasPartition'
  BY NamesAssumption DEF IInv, TypeOK, Flags, MountedHasPartition, PlaceInv,
     EjectUnMount, EjectFailed, unMountWithPrivilege,
     unMountWithoutPrivilege, umount2, Seen, Goto
<1>4. NodeKnown'
  BY NamesAssumption DEF IInv, TypeOK, Flags, NodeKnown, PlaceInv,
     EjectUnMount, EjectFailed, unMountWithPrivilege,
     unMountWithoutPrivilege, umount2, Seen, Goto
<1>5. MountedHasPath'
  BY NamesAssumption DEF IInv, TypeOK, Flags, MountedHasPath, PlaceInv,
     EjectUnMount, EjectFailed, unMountWithPrivilege,
     unMountWithoutPrivilege, umount2, Seen, Goto
<1>6. PlaceInv'
  BY NamesAssumption DEF IInv, TypeOK, Flags, PlaceInv, NodeKnown,
     EjectUnMount, EjectFailed, unMountWithPrivilege,
     unMountWithoutPrivilege, umount2, Seen, Goto
<1>7. MonitorInv'
  BY NamesAssumption DEF IInv, TypeOK, Flags, MonitorInv, PlaceInv,
     NodeKnown, EjectUnMount, EjectFailed, unMountWithPrivilege,
     unMountWithoutPrivilege, umount2, Seen, Goto
<1>8. OneMount'
  BY NamesAssumption DEF IInv, TypeOK, Flags, OneMount, EjectUnMount,
     EjectFailed, unMountWithPrivilege, unMountWithoutPrivilege, umount2,
     Seen, Goto
<1> QED
  BY <1>1, <1>2, <1>3, <1>4, <1>5, <1>6, <1>7,
     <1>8 DEF IInv

LEMMA StepEjected == ASSUME IInv, Ejected PROVE IInv'
<1>1. (Flags \subseteq BOOLEAN)'
  BY NamesAssumption DEF IInv, TypeOK, Flags, Ejected, StateAfterEject
<1>2. TypeOK'
  BY <1>1 DEF IInv, TypeOK, Ejected, StateAfterEject
<1>3. MountedHasPartition'
  BY NamesAssumption DEF IInv, TypeOK, Flags, MountedHasPartition, PlaceInv,
     Ejected, StateAfterEject
<1>4. NodeKnown'
  BY NamesAssumption DEF IInv, TypeOK, Flags, NodeKnown, PlaceInv, Ejected,
     StateAfterEject
<1>5. MountedHasPath'
  BY NamesAssumption DEF IInv, TypeOK, Flags, MountedHasPath, PlaceInv,
     Ejected, StateAfterEject
<1>6. PlaceInv'
  BY NamesAssumption DEF IInv, TypeOK, Flags, PlaceInv, NodeKnown, Ejected,
     StateAfterEject
<1>7. MonitorInv'
  BY NamesAssumption DEF IInv, TypeOK, Flags, MonitorInv, PlaceInv,
     NodeKnown, Ejected, StateAfterEject
<1>8. OneMount'
  BY NamesAssumption DEF IInv, TypeOK, Flags, OneMount, Ejected,
     StateAfterEject
<1> QED
  BY <1>1, <1>2, <1>3, <1>4, <1>5, <1>6, <1>7,
     <1>8 DEF IInv

LEMMA StepMonitorRound == ASSUME IInv, MonitorRound PROVE IInv'
<1>1. (Flags \subseteq BOOLEAN)'
  BY NamesAssumption DEF IInv, TypeOK, Flags, MonitorRound, insertCheck,
     Enumerates
<1>2. TypeOK'
  BY <1>1 DEF IInv, TypeOK, MonitorRound, insertCheck, Enumerates
<1>3. MountedHasPartition'
  BY NamesAssumption DEF IInv, TypeOK, Flags, MountedHasPartition, PlaceInv,
     MonitorRound, insertCheck, Enumerates
<1>4. NodeKnown'
  BY NamesAssumption DEF IInv, TypeOK, Flags, NodeKnown, PlaceInv,
     MonitorRound, insertCheck, Enumerates
<1>5. MountedHasPath'
  BY NamesAssumption DEF IInv, TypeOK, Flags, MountedHasPath, PlaceInv,
     MonitorRound, insertCheck, Enumerates
<1>6. PlaceInv'
  BY NamesAssumption DEF IInv, TypeOK, Flags, PlaceInv, NodeKnown,
     MonitorInv, MonitorRound, insertCheck, Enumerates
<1>7. MonitorInv'
  BY NamesAssumption DEF IInv, TypeOK, Flags, MonitorInv, PlaceInv,
     NodeKnown, MonitorRound, insertCheck, Enumerates
<1>8. OneMount'
  BY NamesAssumption DEF IInv, TypeOK, Flags, OneMount, MonitorRound,
     insertCheck, Enumerates
<1> QED
  BY <1>1, <1>2, <1>3, <1>4, <1>5, <1>6, <1>7,
     <1>8 DEF IInv

LEMMA StepMonitorMount == ASSUME IInv, MonitorMount PROVE IInv'
<1>1. (Flags \subseteq BOOLEAN)'
  BY NamesAssumption DEF IInv, TypeOK, Flags, MonitorMount, mountDevice,
     insertCheck, Enumerates
<1>2. TypeOK'
  BY <1>1 DEF IInv, TypeOK, MonitorMount, mountDevice, insertCheck,
     Enumerates
<1>3. MountedHasPartition'
  BY NamesAssumption DEF IInv, TypeOK, Flags, MountedHasPartition, PlaceInv,
     MonitorMount, mountDevice, insertCheck, Enumerates
<1>4. NodeKnown'
  BY NamesAssumption DEF IInv, TypeOK, Flags, NodeKnown, PlaceInv,
     MonitorMount, mountDevice, insertCheck, Enumerates
<1>5. MountedHasPath'
  BY NamesAssumption DEF IInv, TypeOK, Flags, MountedHasPath, PlaceInv,
     MonitorMount, mountDevice, insertCheck, Enumerates
<1>6. PlaceInv'
  BY NamesAssumption DEF IInv, TypeOK, Flags, PlaceInv, NodeKnown,
     MonitorMount, mountDevice, insertCheck, Enumerates
<1>7. MonitorInv'
  BY NamesAssumption DEF IInv, TypeOK, Flags, MonitorInv, PlaceInv,
     NodeKnown, MonitorMount, mountDevice, insertCheck, Enumerates
<1>8. OneMount'
  BY NamesAssumption DEF IInv, TypeOK, Flags, OneMount, MonitorMount,
     mountDevice, insertCheck, Enumerates
<1> QED
  BY <1>1, <1>2, <1>3, <1>4, <1>5, <1>6, <1>7,
     <1>8 DEF IInv

LEMMA StepMonitorStop == ASSUME IInv, MonitorStop PROVE IInv'
<1>1. (Flags \subseteq BOOLEAN)'
  BY NamesAssumption DEF IInv, TypeOK, Flags, MonitorStop, Goto
<1>2. TypeOK'
  BY <1>1 DEF IInv, TypeOK, MonitorStop, Goto
<1>3. MountedHasPartition'
  BY NamesAssumption DEF IInv, TypeOK, Flags, MountedHasPartition, PlaceInv,
     MonitorStop, Goto
<1>4. NodeKnown'
  BY NamesAssumption DEF IInv, TypeOK, Flags, NodeKnown, PlaceInv,
     MonitorStop, Goto
<1>5. MountedHasPath'
  BY NamesAssumption DEF IInv, TypeOK, Flags, MountedHasPath, PlaceInv,
     MonitorStop, Goto
<1>6. PlaceInv'
  BY NamesAssumption DEF IInv, TypeOK, Flags, PlaceInv, NodeKnown,
     MonitorStop, Goto
<1>7. MonitorInv'
  BY NamesAssumption DEF IInv, TypeOK, Flags, MonitorInv, PlaceInv,
     NodeKnown, MonitorStop, Goto
<1>8. OneMount'
  BY NamesAssumption DEF IInv, TypeOK, Flags, OneMount, MonitorStop, Goto
<1> QED
  BY <1>1, <1>2, <1>3, <1>4, <1>5, <1>6, <1>7,
     <1>8 DEF IInv

LEMMA NextPreserves == IInv /\ [Next]_vars => IInv'
<1> SUFFICES ASSUME IInv, [Next]_vars PROVE IInv'
  OBVIOUS
<1>1. CASE UNCHANGED vars
  <2>1. TypeOK'
    BY <1>1 DEF IInv, TypeOK, Flags
  <2>2. /\ MountedHasPartition' /\ NodeKnown' /\ MountedHasPath'
        /\ PlaceInv' /\ MonitorInv' /\ OneMount'
    BY <1>1 DEF IInv, MountedHasPartition, NodeKnown, MountedHasPath,
       PlaceInv, MonitorInv, OneMount
  <2> QED BY <2>1, <2>2 DEF IInv
<1>2. CASE World \/ Calls
  BY <1>2, StepPlug, StepPull, StepAutoMount, StepCleanUp, StepInsertCheck,
     StepMountDevice, StepisUnsafeEject, StepejectDevice DEF World, Calls
<1>3. CASE MountStep
  BY <1>3, StepFindPartition, StepLookUp, StepCheckMounted, StepUnMount,
     StepMountWithPrivilege, StepMountWithoutPrivilege, StepLookAgain
     DEF MountStep
<1>4. CASE EjectStep
  BY <1>4, StepEjectUnMount, StepEjected DEF EjectStep
<1> QED
  BY <1>1, <1>2, <1>3, <1>4, StepMonitorRound, StepMonitorMount,
     StepMonitorStop DEF Next

\* What the object believes of the stick while commands, polls and the
\* stick's comings and goings interleave is an inductive invariant.
THEOREM Invariance == Spec => []IInv
BY InitEstablishes, NextPreserves, PTL DEF Spec

\* A program that mounts only what it has found never loses track of whether
\* there is a device (insertCheck, mountDevice, isUnsafeEject, ejectDevice).
THEOREM CarefulKnows == Spec => []NodeKnown
<1>1. IInv => NodeKnown
  BY DEF IInv
<1> QED
  BY <1>1, Invariance, PTL

\* A careful program's mounted stick always has a path (getMountPath).
THEOREM PathOfMounted == Spec => []MountedHasPath
<1>1. IInv => MountedHasPath
  BY DEF IInv
<1> QED
  BY <1>1, Invariance, PTL

-----------------------------------------------------------------------------
(* With skipMount, ejectDevice reports a stick only when it is unmounted.  *)

\* The stick has one mount at most, so whatever takes a mount away from it
\* leaves none.
LEMMA UnmountsAll ==
  ASSUME IInv, m_skipMount, ~silent, pc # "ejected", pc' = "ejected",
         EjectUnMount
  PROVE  mounts' = {} \/ m_mountPoint \in stale
<1>1. \A p, q \in mounts : p = q
  BY DEF IInv, OneMount
<1>2. CASE umount2
  BY <1>1, <1>2 DEF umount2
<1>3. CASE mounts' \in SUBSET mounts /\ mounts' # mounts
  BY <1>1, <1>3
<1>4. umount2 \/ (mounts' \in SUBSET mounts /\ mounts' # mounts)
  BY DEF EjectUnMount, unMountWithPrivilege, unMountWithoutPrivilege, Goto,
     EjectFailed
<1> QED BY <1>2, <1>3, <1>4

\* With skipMount, ejectDevice goes on to report the stick as ejected only
\* when it is unmounted, if the unmount tools say "error" when they fail and
\* no pulled stick has left a mount at the same path.
THEOREM EjectedIsUnmounted == Spec => EjectUnmounts
<1>1. IInv /\ [Next]_vars =>
        [m_skipMount /\ ~silent /\ pc # "ejected" /\ pc' = "ejected" =>
           mounts' = {} \/ m_mountPoint \in stale]_vars
  <2> SUFFICES ASSUME IInv, Next, m_skipMount, ~silent, pc # "ejected",
                      pc' = "ejected"
               PROVE  mounts' = {} \/ m_mountPoint \in stale
    OBVIOUS
  <2>1. ~World /\ ~Calls
    BY DEF World, Calls, Plug, Pull, AutoMount, CleanUp, InsertCheck,
       MountDevice, mountDevice, isUnsafeEject, ejectDevice, Goto
  <2>2. ~MountStep
    BY DEF MountStep, FindPartition, LookUp, CheckMounted, UnMount, Finish,
       unMountWithPrivilege, unMountWithoutPrivilege, MountWithPrivilege,
       MountWithoutPrivilege, LookAgain, Mounted, Goto
  <2>3. ~MonitorRound /\ ~MonitorMount /\ ~MonitorStop
    BY DEF MonitorRound, MonitorMount, mountDevice, MonitorStop, Goto
  <2>4. EjectUnMount
    BY <2>1, <2>2, <2>3 DEF Next, EjectStep, Ejected
  <2> QED BY <2>4, UnmountsAll
<1> QED
  BY <1>1, Invariance, PTL DEF Spec, EjectUnmounts

-----------------------------------------------------------------------------
(* StorageUSB implements Watch for a careful program: each command of      *)
(* mountDevice is an attempt to mount, or leaves what the program sees.    *)

\* What a careful program's mountDevice knows when it runs a command.
LEMMA InMountDevice ==
  ASSUME IInv, Careful, pc \in MountPlaces
  PROVE  Watched!Unmounted
BY DEF IInv, TypeOK, NodeKnown, PlaceInv, Watched!Unmounted

\* What lsblk says are paths, now and after any step.
LEMMA SeenArePaths ==
  ASSUME IInv, IInv'
  PROVE  /\ Seen(m_partitionNode) \subseteq Paths
         /\ Seen(m_partitionNode)' \subseteq Paths
         /\ {m_mountPoint, m_mountPoint'} \subseteq Watched!Places
BY DEF IInv, TypeOK, Seen, Watched!Places

\* A command that reports no mount is an attempt.
LEMMA Attempts ==
  ASSUME IInv, IInv', Careful, pc \in MountPlaces,
         m_deviceNode' = m_deviceNode,
         m_state' \in {m_state, "INSERTED_UNMOUNTED"}
  PROVE  Watched!Next
BY InMountDevice, SeenArePaths DEF Watched!TryMount, Watched!Next

\* The commands of mountDevice.  Only skipMount's reports a mount.
LEMMA MountWatched ==
  ASSUME IInv, IInv', Careful, MountStep
  PROVE  Watched!Next
<1>1. pc \in MountPlaces /\ m_deviceNode' = m_deviceNode
  BY DEF MountStep, FindPartition, LookUp, CheckMounted, UnMount,
     MountWithPrivilege, MountWithoutPrivilege, LookAgain
<1>2. CASE ~LookUp
  <2>1. m_state' \in {m_state, "INSERTED_UNMOUNTED"}
    BY <1>2 DEF MountStep, FindPartition, CheckMounted, UnMount,
       unMountWithPrivilege, unMountWithoutPrivilege, MountWithPrivilege,
       MountWithoutPrivilege, LookAgain, Mounted, Finish, StateAfter, Goto
  <2> QED BY <1>1, <2>1, Attempts
<1>3. CASE LookUp
  <2>1. m_state' = StateAfter(isSupportedFs, m_mountPoint')
    BY <1>3 DEF LookUp, Finish
  <2>2. CASE m_state' \in {m_state, "INSERTED_UNMOUNTED"}
    BY <1>1, <2>2, Attempts
  <2>3. CASE m_state' = "MOUNTED" /\ m_state # "MOUNTED"
    <3>1. m_mountPoint' # ""
      BY <2>1, <2>3 DEF StateAfter
    <3>2. m_mountPoint' \in Seen(m_partitionNode)'
      BY <1>3, <3>1 DEF LookUp, Answers, Seen
    <3> QED BY <1>1, <2>3, <3>2, InMountDevice, SeenArePaths
            DEF Watched!Mount, Watched!Next
  <2> QED BY <2>1, <2>2, <2>3 DEF StateAfter
<1> QED BY <1>2, <1>3

\* insertCheck, whoever calls it.
LEMMA FindsWatched ==
  ASSUME IInv, Careful, insertCheck, UNCHANGED <<node, mounts>>
  PROVE  [Watched!Next]_(Watched!vars)
<1>1. Enumerates <=> m_deviceNode = ""
  BY DEF IInv, NodeKnown, Enumerates
<1>2. UNCHANGED <<m_mountPoint, Seen(m_partitionNode)>>
  BY DEF insertCheck, Seen
<1>3. CASE Enumerates /\ stick # "absent"
  <2>1. m_state' = "INSERTED" /\ m_deviceNode' # ""
    BY <1>3, NamesAssumption DEF insertCheck, IInv, TypeOK
  <2> QED BY <1>1, <1>2, <1>3, <2>1 DEF Watched!Find, Watched!Next
<1>4. CASE ~(Enumerates /\ stick # "absent")
  BY <1>2, <1>4 DEF insertCheck, Watched!vars
<1> QED BY <1>3, <1>4

\* The commands of ejectDevice.
LEMMA EjectWatched ==
  ASSUME IInv, IInv', EjectStep
  PROVE  [Watched!Next]_(Watched!vars)
<1>1. CASE EjectUnMount
  <2>1. UNCHANGED <<m_state, m_deviceNode, m_mountPoint>>
    BY <1>1 DEF EjectUnMount, unMountWithPrivilege, unMountWithoutPrivilege,
       Goto
  <2> QED BY <2>1, SeenArePaths DEF Watched!Move, Watched!Next
<1>2. CASE Ejected
  <2>1. Seen(m_partitionNode)' = {}
    BY <1>2, NamesAssumption DEF Ejected, Seen, IInv, TypeOK
  <2> QED BY <1>2, <2>1 DEF Ejected, StateAfterEject, Watched!Eject,
                            Watched!Next
<1> QED BY <1>1, <1>2 DEF EjectStep

\* The other calls, the user, the system and the end of the monitor.
LEMMA OthersWatched ==
  ASSUME IInv, IInv', World \/ isUnsafeEject \/ ejectDevice \/ MonitorStop
  PROVE  [Watched!Next]_(Watched!vars)
<1>1. CASE ~isUnsafeEject
  <2>1. UNCHANGED <<m_state, m_deviceNode, m_mountPoint>>
    BY <1>1 DEF World, Plug, Pull, AutoMount, CleanUp, ejectDevice,
       MonitorStop, Goto
  <2> QED BY <2>1, SeenArePaths DEF Watched!Move, Watched!Next
<1>2. CASE isUnsafeEject
  <2>1. UNCHANGED <<m_mountPoint, Seen(m_partitionNode)>>
    BY <1>2 DEF isUnsafeEject, Seen
  <2> QED BY <1>2, <2>1 DEF isUnsafeEject, Watched!Lose, Watched!Next,
                            Watched!vars
<1> QED BY <1>1, <1>2

LEMMA StepsWatched ==
  IInv /\ [Next]_vars => (Careful => [Watched!Next]_(Watched!vars))
<1> SUFFICES ASSUME IInv, [Next]_vars, Careful
             PROVE  [Watched!Next]_(Watched!vars)
  OBVIOUS
<1>1. IInv'
  BY NextPreserves
<1>2. CASE UNCHANGED vars
  BY <1>2 DEF Watched!vars, Seen
<1>3. CASE InsertCheck \/ MountDevice \/ MonitorRound \/ MonitorMount
  BY <1>3, FindsWatched
     DEF InsertCheck, MountDevice, MonitorRound, MonitorMount, mountDevice
<1> QED BY <1>1, <1>2, <1>3, MountWatched, EjectWatched, OthersWatched
        DEF Next, Calls

\* A careful program's object leaves a mounted stick alone until the stick is
\* lost or ejected, whatever happens between the commands of mountDevice.
THEOREM MountsAreKept == Spec => WatchesStick
<1>1. IInv /\ [Next]_vars => [Careful => [Watched!Next]_(Watched!vars)]_vars
  BY StepsWatched
<1> QED BY <1>1, Invariance, PTL DEF Spec, WatchesStick

\* For a careful program StorageUSB implements Watch.
THEOREM ImplementsWatch == Spec => (Careful => Watched!Spec)
<1>1. Init => Watched!Init
  BY DEF Init, Seen, Watched!Init
<1>2. Careful /\ [Next]_vars => Careful'
  BY DEF Next, World, Plug, Pull, AutoMount, CleanUp, Calls, InsertCheck,
     MountDevice, mountDevice, isUnsafeEject, ejectDevice, MountStep,
     FindPartition, LookUp, CheckMounted, UnMount, MountWithPrivilege,
     MountWithoutPrivilege, LookAgain, EjectStep, EjectUnMount, Ejected,
     MonitorRound, MonitorMount, MonitorStop
<1> QED BY <1>1, <1>2, StepsWatched, Invariance, PTL DEF Spec, Watched!Spec
=============================================================================
