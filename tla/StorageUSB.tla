----------------------------- MODULE StorageUSB -----------------------------
(***************************************************************************)
(* apra::StorageUSB: one object that follows one USB stick.  Three actors  *)
(* share the stick: the program, which calls the object's member functions,*)
(* the user, who plugs and pulls, and the system, which mounts sticks and  *)
(* cleans up after them.  mountDevice and ejectDevice run several          *)
(* commands, between which the others may act.  A stick has at most one    *)
(* partition worth mounting, which may be mounted at several paths.        *)
(***************************************************************************)
EXTENDS Naturals

CONSTANTS
  SkipModes,   \* the values of the constructor's skipMount
  Programs,    \* who calls: "any" program; a "careful" one, which calls
               \* mountDevice only when it knows of a device and has not
               \* mounted it; the "monitor" of usb_storage_example.cpp
  SilentModes, \* may an unmount tool do nothing without saying "error"?
  Nodes,       \* the device nodes the kernel gives to sticks
  AutoPaths    \* the paths the system mounts sticks at

ASSUME ModesAssumption == /\ SkipModes \subseteq BOOLEAN
                          /\ Programs \subseteq {"any", "careful", "monitor"}
                          /\ SilentModes \subseteq BOOLEAN

ASSUME NamesAssumption == "" \notin Nodes /\ "" \notin AutoPaths

VARIABLES
  m_state, m_skipMount,
  m_deviceNode, m_partitionNode, \* "" or a node; a stick's partition has
                                 \* the name of its node
  m_mountPoint,     \* "" or a path
  pc,               \* the next command of the call under way, or "idle"
  isSupportedFs,    \* mountDevice's local variable, once it is known
  returned,         \* what mountDevice returned last
  mpc,              \* where the monitor is
  devicePresent,    \* the monitor's local variable
  stick, node,      \* what is plugged in, and its node
  mounts,           \* where its partition is mounted
  stale,            \* where sticks that have been pulled are still mounted
  program, silent

objectVars  == <<m_state, m_deviceNode, m_partitionNode, m_mountPoint>>
localVars   == <<pc, isSupportedFs, returned>>
monitorVars == <<mpc, devicePresent>>
plugVars    == <<stick, node>>
mountVars   == <<mounts, stale>>
modeVars    == <<m_skipMount, program, silent>>
otherVars   == <<monitorVars, plugVars, modeVars>>
vars == <<objectVars, localVars, monitorVars, plugVars, mountVars, modeVars>>

States == {"INSERTED", "INSERTED_UNMOUNTED", "MOUNTED", "UNSAFE_EJECT",
           "SAFE_EJECT"}
EjectStates == {"UNSAFE_EJECT", "SAFE_EJECT"}

\* The path given to the constructor and the ones the system chooses.
Paths == {"manual"} \cup AutoPaths

\* No stick; one with a file system of m_supportedTypes; one with another
\* file system; one without any.
Sticks == {"absent", "supported", "foreign", "blank"}

\* lsblk lists a partition of n, and where it is mounted: at any one of the
\* paths, or at none.
HasPartition(n) == stick \in {"supported", "foreign"} /\ node = n
Seen(n) == IF node = n THEN mounts ELSE {}
Answers(n) == IF Seen(n) = {} THEN {""} ELSE Seen(n)

Init ==
  /\ m_state = "SAFE_EJECT"
  /\ m_deviceNode = "" /\ m_partitionNode = "" /\ m_mountPoint = "manual"
  /\ pc = "idle" /\ isSupportedFs = FALSE /\ returned = ""
  /\ mpc = "round" /\ devicePresent = FALSE
  /\ stick = "absent" /\ node \in Nodes /\ mounts = {} /\ stale = {}
  /\ m_skipMount \in SkipModes /\ silent \in SilentModes
  /\ program \in Programs
  /\ program = "monitor" => ~m_skipMount

-----------------------------------------------------------------------------
(* The user and the system.                                                *)

Plug ==
  /\ stick = "absent"
  /\ stick' \in Sticks \ {"absent"} /\ node' \in Nodes
  /\ UNCHANGED <<objectVars, localVars, monitorVars, mountVars, modeVars>>

\* Where a stick was mounted when it was pulled, it stays mounted for a while.
Pull ==
  /\ stick # "absent"
  /\ stick' = "absent" /\ mounts' = {} /\ stale' = stale \cup mounts
  /\ UNCHANGED <<objectVars, localVars, monitorVars, node, modeVars>>

\* The system mounts what nobody has mounted, at a path that is free.
SystemMounts(path) ==
  /\ stick \in {"supported", "foreign"} /\ mounts = {}
  /\ path \in AutoPaths \ stale
  /\ mounts' = {path} /\ UNCHANGED stale

AutoMount ==
  /\ \E path \in AutoPaths : SystemMounts(path)
  /\ UNCHANGED <<objectVars, localVars, monitorVars, plugVars, modeVars>>

CleanUp ==
  /\ \E path \in stale : stale' = stale \ {path}
  /\ UNCHANGED <<objectVars, localVars, monitorVars, plugVars, mounts,
                 modeVars>>

World == Plug \/ Pull \/ AutoMount \/ CleanUp

-----------------------------------------------------------------------------
(* insertCheck, which looks for a device only while it believes that there *)
(* is none.  It returns the new m_deviceNode.                              *)

BugForgetsSafe == m_state = "UNSAFE_EJECT"
Enumerates == m_state \in EjectStates

insertCheck ==
  LET found == Enumerates /\ stick # "absent"
  IN  /\ m_state' = IF found THEN "INSERTED" ELSE m_state
      /\ m_deviceNode' = IF found THEN node ELSE m_deviceNode
      /\ UNCHANGED <<m_partitionNode, m_mountPoint>>

InsertCheck ==
  /\ pc = "idle" /\ program # "monitor"
  /\ insertCheck
  /\ UNCHANGED <<localVars, mountVars, otherVars>>

-----------------------------------------------------------------------------
(* mountDevice.                                                            *)

\* The states mountDevice chooses from its two local variables.  The branch
\* that tests m_retryCount is unreachable, and nothing else reads it.
BugIgnorePath(supported, usbMountPath) ==
  IF supported THEN "MOUNTED" ELSE "INSERTED_UNMOUNTED"
StateAfter(supported, usbMountPath) ==
  IF ~supported THEN "INSERTED_UNMOUNTED"
  ELSE IF usbMountPath # "" THEN "MOUNTED" ELSE m_state

Finish(supported, usbMountPath) ==
  /\ pc' = "idle"
  /\ m_state' = StateAfter(supported, usbMountPath)
  /\ returned' = usbMountPath
  /\ UNCHANGED isSupportedFs

Goto(place) == pc' = place /\ UNCHANGED <<m_state, isSupportedFs, returned>>

\* The call, up to the first command.
mountDevice ==
  /\ insertCheck
  /\ pc' = "partitions"
  /\ UNCHANGED <<isSupportedFs, returned, plugVars, mountVars, modeVars>>

MountDevice ==
  /\ pc = "idle" /\ program # "monitor"
  /\ program = "careful" => m_deviceNode # "" /\ m_state # "MOUNTED"
  /\ mountDevice
  /\ UNCHANGED monitorVars

\* getHighCapacityPartition(devNode).  Only skipMount's branch looks at the
\* file system.
FindPartition ==
  /\ pc = "partitions"
  /\ IF HasPartition(m_deviceNode)
     THEN /\ pc' = IF m_skipMount THEN "lookup" ELSE "check"
          /\ isSupportedFs' = (m_skipMount /\ stick = "supported")
          /\ UNCHANGED <<m_state, returned>>
     ELSE Finish(FALSE, "")
  /\ UNCHANGED <<m_deviceNode, m_partitionNode, m_mountPoint, mountVars,
                 otherVars>>

\* skipMount: findMountDeviceBylsblk.
LookUp ==
  /\ pc = "lookup"
  /\ m_mountPoint' \in Answers(m_deviceNode)
  /\ m_partitionNode' = m_deviceNode
  /\ Finish(isSupportedFs, m_mountPoint')
  /\ UNCHANGED <<m_deviceNode, mountVars, otherVars>>

\* mountUSBDevice: is the partition mounted already?
CheckMounted ==
  /\ pc = "check"
  /\ IF Seen(m_deviceNode) # {}
     THEN /\ m_mountPoint' \in Seen(m_deviceNode)
          /\ m_partitionNode' = m_deviceNode
          /\ Goto("umount2")
     ELSE Goto("mount") /\ UNCHANGED <<m_mountPoint, m_partitionNode>>
  /\ UNCHANGED <<m_deviceNode, mountVars, otherVars>>

\* umount2 takes the last mount away from m_mountPoint, which is the stick's
\* or one that a pulled stick has left; under it there may be another.
umount2 ==
  \/ /\ m_mountPoint \in mounts
     /\ mounts' = mounts \ {m_mountPoint} /\ UNCHANGED stale
  \/ /\ m_mountPoint \in stale
     /\ stale' \in {stale, stale \ {m_mountPoint}} /\ UNCHANGED mounts

unMountWithPrivilege(done, failed) ==
  \/ umount2 /\ Goto(done)
  \/ UNCHANGED mountVars /\ Goto(failed)

\* udisksctl unmounts the partition from some of its paths, or says "error",
\* or fails in another way.
unMountWithoutPrivilege(done, failed) ==
  \/ /\ Seen(m_partitionNode) # {}
     /\ mounts' \in SUBSET mounts /\ mounts' # mounts /\ UNCHANGED stale
     /\ Goto(done)
  \/ UNCHANGED mountVars /\ Goto(failed)
  \/ silent /\ UNCHANGED mountVars /\ Goto(done)

\* mountUSBDevice ignores whether unMountUSBDevice has worked.
UnMount ==
  /\ \/ pc = "umount2" /\ unMountWithPrivilege("mount", "unmount")
     \/ pc = "unmount" /\ unMountWithoutPrivilege("mount", "mount")
  /\ UNCHANGED <<m_deviceNode, m_partitionNode, m_mountPoint, otherVars>>

\* mountDeviceNode returns: a mount never counts as a supported one.
Mounted(path) ==
  /\ m_mountPoint' = path
  /\ m_partitionNode' = m_deviceNode
  /\ Finish(FALSE, path)

\* mountWithPrivilege, all its attempts: one more mount, at m_mountPoint.
MountWithPrivilege ==
  /\ pc = "mount"
  /\ \/ /\ HasPartition(m_deviceNode) /\ m_mountPoint \notin mounts \cup {""}
        /\ mounts' = mounts \cup {m_mountPoint} /\ UNCHANGED stale
        /\ Mounted("manual")
     \/ /\ Goto("udisks")
        /\ UNCHANGED <<m_mountPoint, m_partitionNode, mountVars>>
  /\ UNCHANGED <<m_deviceNode, otherVars>>

\* mountWithoutPrivilege: the answer "already mounted" will do, too.
MountWithoutPrivilege ==
  /\ pc = "udisks"
  /\ \/ /\ HasPartition(m_deviceNode)
        /\ \/ \E path \in AutoPaths : SystemMounts(path)
           \/ mounts # {} /\ UNCHANGED mountVars
        /\ Goto("relook")
     \/ Finish(FALSE, "") /\ UNCHANGED mountVars
  /\ UNCHANGED <<m_deviceNode, m_partitionNode, m_mountPoint, otherVars>>

\* Where has it been mounted, if it still is?
LookAgain ==
  /\ pc = "relook"
  /\ \E path \in Answers(m_deviceNode) : Mounted(path)
  /\ UNCHANGED <<m_deviceNode, mountVars, otherVars>>

MountStep == FindPartition \/ LookUp \/ CheckMounted \/ UnMount
               \/ MountWithPrivilege \/ MountWithoutPrivilege \/ LookAgain

-----------------------------------------------------------------------------
(* isUnsafeEject and ejectDevice.                                          *)

isUnsafeEject ==
  /\ pc = "idle" /\ program # "monitor"
  /\ IF m_state = "MOUNTED" /\ Seen(m_partitionNode) = {}
     THEN m_state' = "UNSAFE_EJECT" /\ m_deviceNode' = ""
     ELSE UNCHANGED <<m_state, m_deviceNode>>
  /\ UNCHANGED <<m_partitionNode, m_mountPoint, localVars, mountVars,
                 otherVars>>

ejectDevice ==
  /\ pc = "idle" /\ program # "monitor"
  /\ Goto("eject")
  /\ UNCHANGED <<m_deviceNode, m_partitionNode, m_mountPoint, mountVars,
                 otherVars>>

\* Where ejectDevice goes when unMountWithoutPrivilege has failed.
BugEjectAnyway == "ejected"
EjectFailed == "idle"

EjectUnMount ==
  /\ \/ pc = "eject" /\ unMountWithPrivilege("ejected", "ejectTool")
     \/ pc = "ejectTool" /\ unMountWithoutPrivilege("ejected", EjectFailed)
  /\ UNCHANGED <<m_deviceNode, m_partitionNode, m_mountPoint, otherVars>>

BugStateStays == m_state
StateAfterEject == "SAFE_EJECT"

Ejected ==
  /\ pc = "ejected" /\ pc' = "idle"
  /\ m_state' = StateAfterEject
  /\ m_mountPoint' = "" /\ m_deviceNode' = "" /\ m_partitionNode' = ""
  /\ UNCHANGED <<isSupportedFs, returned, mountVars, otherVars>>

EjectStep == EjectUnMount \/ Ejected

Calls == InsertCheck \/ MountDevice \/ isUnsafeEject \/ ejectDevice

-----------------------------------------------------------------------------
(* continuousMonitoringExample: a round of its loop calls insertCheck, and *)
(* mountDevice when that has found a device that was not there before.     *)

MonitorRound ==
  /\ program = "monitor" /\ mpc = "round" /\ pc = "idle"
  /\ insertCheck
  /\ devicePresent' = (m_deviceNode' # "")
  /\ mpc' = IF devicePresent' /\ ~devicePresent THEN "mount" ELSE "round"
  /\ UNCHANGED <<localVars, plugVars, mountVars, modeVars>>

MonitorMount ==
  /\ program = "monitor" /\ mpc = "mount" /\ pc = "idle"
  /\ mountDevice
  /\ mpc' = "round" /\ UNCHANGED devicePresent

\* The signal, and the clean-up after the loop.
MonitorStop ==
  /\ program = "monitor" /\ mpc = "round" /\ pc = "idle"
  /\ mpc' = "stopped"
  /\ Goto(IF m_state = "MOUNTED" THEN "eject" ELSE "idle")
  /\ UNCHANGED <<m_deviceNode, m_partitionNode, m_mountPoint, devicePresent,
                 plugVars, mountVars, modeVars>>

Next == World \/ Calls \/ MountStep \/ EjectStep
          \/ MonitorRound \/ MonitorMount \/ MonitorStop

\* A call under way runs its next command, and the monitor its next call,
\* until it is stopped.  Nobody else has to call, plug, pull or mount.
Fairness == /\ WF_vars(MountStep) /\ WF_vars(EjectStep)
            /\ WF_vars(MonitorRound) /\ WF_vars(MonitorMount)

Spec == Init /\ [][Next]_vars /\ Fairness

-----------------------------------------------------------------------------
(* Properties.                                                             *)

MountPlaces == {"partitions", "lookup", "check", "umount2", "unmount",
                "mount", "udisks", "relook"}
EjectPlaces == {"eject", "ejectTool", "ejected"}

Flags == {m_skipMount, isSupportedFs, devicePresent, silent}

TypeOK ==
  /\ Flags \subseteq BOOLEAN
  /\ m_state \in States
  /\ {m_deviceNode, m_partitionNode} \subseteq Nodes \cup {""}
  /\ {m_mountPoint, returned} \subseteq Paths \cup {""}
  /\ pc \in MountPlaces \cup EjectPlaces \cup {"idle"}
  /\ mpc \in {"round", "mount", "stopped"}
  /\ stick \in Sticks /\ node \in Nodes
  /\ mounts \subseteq Paths /\ stale \subseteq Paths
  /\ program \in {"any", "careful", "monitor"}

\* The monitor is careful, too.
Careful == program # "any"

\* A mounted state names the partition that isUnsafeEject asks lsblk for:
\* with an empty name lsblk would list every mount of the system.
MountedHasPartition ==
  m_state = "MOUNTED" => m_partitionNode # "" /\ m_deviceNode # ""

\* A program that mounts only what it has found never loses track: the object
\* looks for devices exactly while it has none.
NodeKnown == Careful => (m_state \in EjectStates <=> m_deviceNode = "")

\* getMountPath of a careful program's mounted stick is never empty, however
\* plugging, automounting and ejecting interleave with mountDevice.
MountedHasPath == Careful /\ m_state = "MOUNTED" => m_mountPoint # ""

Watched == INSTANCE Watch WITH state <- m_state, known <- m_deviceNode # "",
                               path <- m_mountPoint,
                               where <- Seen(m_partitionNode)

\* A careful program's object only does what Watch allows: it leaves a mounted
\* stick's path and state alone until the stick is lost or ejected, whatever
\* the user and the system do between the commands of mountDevice.
WatchesStick == [][Careful => [Watched!Next]_(Watched!vars)]_vars

\* Past its first command a careful program's mountDevice knows of a device
\* that it takes for unmounted; a careless one's knows of one, too, once it
\* has found a partition.
PlaceInv ==
  /\ Careful /\ pc \in MountPlaces => m_deviceNode # "" /\ m_state # "MOUNTED"
  /\ pc \in MountPlaces \ {"partitions"} => m_deviceNode # ""
  /\ mpc = "mount" => /\ program = "monitor" /\ pc = "idle"
                       /\ m_deviceNode # "" /\ m_state # "MOUNTED"

\* The monitor's devicePresent says whether the object has a device node, and
\* the monitor ejects only after its loop.
MonitorInv ==
  program = "monitor" /\ mpc # "stopped" =>
    devicePresent = (m_deviceNode # "") /\ pc \notin EjectPlaces

\* With skipMount only the system mounts, and it mounts once.
OneMount ==
  m_skipMount => /\ \A p, q \in mounts : p = q
                 /\ pc \in {"idle", "partitions", "lookup"} \cup EjectPlaces

\* The conjunction, which every step preserves.
IInv == TypeOK /\ MountedHasPartition /\ NodeKnown /\ MountedHasPath
          /\ PlaceInv /\ MonitorInv /\ OneMount

\* With skipMount, ejectDevice goes on to report the stick as ejected only
\* when it has been unmounted, unless the unmount tool has failed without
\* saying "error", or a pulled stick has left a mount at the same path.
EjectUnmounts ==
  [][m_skipMount /\ ~silent /\ pc # "ejected" /\ pc' = "ejected" =>
       mounts' = {} \/ m_mountPoint \in stale]_vars

\* The monitor finds the first stick that stays and completes its attempt to
\* mount it, whatever is mounted, cleaned up or was pulled meanwhile, unless it
\* is stopped.  A later stick it takes for the first one, whose removal
\* insertCheck does not see.
MonitorMounts ==
  program = "monitor" /\ stick # "absent"
    ~> \/ m_state = "INSERTED_UNMOUNTED" /\ devicePresent /\ pc = "idle"
       \/ stick = "absent" \/ mpc = "stopped"

\* "Successfully mounted at: <path>" (usb_storage_example.cpp): a path that
\* mountDevice returns is where the stick is mounted.
ReturnedPathIsMounted ==
  [][(pc \in MountPlaces /\ pc' = "idle") =>
       returned' \in mounts' \cup {""}]_vars
=============================================================================
