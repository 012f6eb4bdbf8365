--------------------------- MODULE UsbHostProofs ----------------------------
(***************************************************************************)
(* Machine-checked theorems about UsbHost, for every number of channels.   *)
(***************************************************************************)
EXTENDS UsbHost, FiniteSetTheorems, WellFoundedInduction, TLAPS

\* A set of channels that is not empty has a lowest one.
LEMMA LowestIsLeast ==
  ASSUME NEW S \in SUBSET Nat, S # {}
  PROVE  Lowest(S) \in S /\ \A d \in S : Lowest(S) <= d
<1> DEFINE R == {ss \in Nat \X Nat : ss[1] < ss[2]}
<1>1. \E c \in S : \A d \in S : ~(<<d, c>> \in R)
  <2>1. IsWellFoundedOn(R, Nat)
    BY NatLessThanWellFounded DEF OpToRel
  <2> HIDE DEF R
  <2> QED BY <2>1, WFMin
<1>2. PICK c \in S : \A d \in S : ~(<<d, c>> \in R)
  BY <1>1
<1>3. \A d \in S : c <= d
  <2> TAKE d \in S
  <2>1. ~(<<d, c>> \in R)
    BY <1>2
  <2>2. c \in Nat /\ d \in Nat
    OBVIOUS
  <2> QED BY <2>1, <2>2 DEF R
<1> QED BY <1>3 DEF Lowest

\* What PipeCreate returns is free.
LEMMA FreeFacts ==
  ASSUME used \subseteq Channels
  PROVE  /\ Free \subseteq Channels
         /\ Channels \subseteq Nat
         /\ Free # {} => Lowest(Free) \in Free
<1>1. Free \subseteq Channels /\ Channels \subseteq Nat
  BY PipesAssumption DEF Free, Channels
<1> QED BY <1>1, LowestIsLeast

\* A finite set loses at most one element at a time.
LEMMA OneLess ==
  ASSUME NEW S, IsFiniteSet(S), NEW x
  PROVE  /\ IsFiniteSet(S \ {x})
         /\ Cardinality(S) >= 3 => Cardinality(S \ {x}) >= 2
         /\ Cardinality(S) >= 2 => Cardinality(S \ {x}) >= 1
<1>1. Cardinality(S) \in Nat
  BY FS_CardinalityType
<1>2. /\ IsFiniteSet(S \ {x})
      /\ Cardinality(S \ {x}) = IF x \in S THEN Cardinality(S) - 1 ELSE Cardinality(S)
  BY FS_RemoveElement, Zenon
<1> QED BY <1>1, <1>2

\* Three channels are left when three are free, each the lowest but for those
\* before it.
LEMMA ThreeFree ==
  ASSUME used \subseteq Channels, Cardinality(Free) >= 3
  PROVE  /\ Free # {}
         /\ Free \ {Lowest(Free)} # {}
         /\ Free \ {Lowest(Free), Lowest(Free \ {Lowest(Free)})} # {}
<1> DEFINE a == Lowest(Free)
           b == Lowest(Free \ {a})
<1>1. IsFiniteSet(Free) /\ Cardinality(Free) \in Nat
  <2>1. IsFiniteSet(Channels)
    BY PipesAssumption, FS_Interval DEF Channels
  <2> QED BY <2>1, FreeFacts, FS_Subset, FS_CardinalityType
<1> HIDE DEF a, b
<1>2. Free # {}
  BY FS_EmptySet
<1>3. IsFiniteSet(Free \ {a}) /\ Cardinality(Free \ {a}) >= 2
  BY <1>1, OneLess
<1>4. Free \ {a} # {}
  BY <1>3, FS_EmptySet
<1>5. IsFiniteSet((Free \ {a}) \ {b}) /\ Cardinality((Free \ {a}) \ {b}) >= 1
  BY <1>3, OneLess
<1>6. (Free \ {a}) \ {b} # {}
  BY <1>5, FS_EmptySet
<1>7. Free \ {a, b} # {}
  BY <1>6
<1> QED BY <1>2, <1>4, <1>7 DEF a, b
-----------------------------------------------------------------------------
\* What the main program is working on suits its place.
JobFits ==
  /\ at = "store" => job \in DOMAIN NextState
  /\ at = "request" => job \in EnumRequests \cup AppRequests
  /\ at = "pulse" => job \in {"DoReset", "Default", "Error"}

\* The states USB_Host_ProcessNextHostState leads to.
LEMMA StateFacts ==
  /\ DOMAIN NextState = {"Powered", "WaitForDeviceSettle", "WaitForConnect", "DoReset",
       "ConfigPipe", "Default", "PostReset", "PostAddressSet", "SetConfig"}
  /\ \A s \in DOMAIN NextState : NextState[s] \in HostStates
  /\ HostStates = {"WaitForDevice", "Unattached", "Powered", "WaitForDeviceSettle",
       "WaitForConnect", "DoReset", "ConfigPipe", "Default", "PostReset", "PostAddressSet",
       "Addressed", "Configured"}
<1>1. DOMAIN NextState = {"Powered", "WaitForDeviceSettle", "WaitForConnect", "DoReset",
       "ConfigPipe", "Default", "PostReset", "PostAddressSet", "SetConfig"}
  BY DEF NextState
<1>2. \A s \in DOMAIN NextState : NextState[s] \in HostStates
  BY DEF HostStates
<1>3. {NextState[s] : s \in DOMAIN NextState} = {"WaitForDeviceSettle", "WaitForConnect",
        "DoReset", "ConfigPipe", "Default", "PostReset", "PostAddressSet", "Addressed",
        "Configured"}
  BY <1>1 DEF NextState
<1> QED BY <1>1, <1>2, <1>3 DEF HostStates

\* TypeOK with JobFits is inductive but for the history variable.
LEMMA TypeStep ==
  ASSUME TypeOK, JobFits, Next
  PROVE  TypeOK' /\ JobFits'
<1> USE StateFacts DEF TypeOK, JobFits, Go, Jobs, EnumRequests, AppRequests
<1>0. spoiled' \in BOOLEAN
  <2>1. ASSUME NEW x, spoiled' = (spoiled \/ x) PROVE spoiled' \in BOOLEAN
    BY <2>1
  <2> QED BY <2>1 DEF Next, Careless, ProgramStep
<1>1. CASE Poll
  BY <1>0, <1>1 DEF Poll, pipes
<1>2. CASE Show
  BY <1>0, <1>2 DEF Show, pipes
<1>3. CASE Process
  BY <1>0, <1>3 DEF Process, pipes, status
<1>4. CASE Dispatch
  <2>1. used \subseteq Channels /\ (Free # {} => Lowest(Free) \in Channels)
    BY FreeFacts
  <2>2. used' \subseteq Channels /\ handle' \in [Slots -> Channels \cup {NoPipe}]
    BY <1>4, <2>1 DEF Dispatch, pipes
  <2> QED BY <1>0, <1>4, <2>2 DEF Dispatch, pipes, status
<1>5. CASE PulseEnds
  BY <1>0, <1>5 DEF PulseEnds, pipes, status
<1>6. CASE Store
  BY <1>0, <1>6 DEF Store, pipes, status
<1>7. CASE Fail
  BY <1>0, <1>7 DEF Fail, pipes, status
<1>8. CASE ConfigurePipes
  <2>1. CASE Cardinality(Free) >= 3
    <3> DEFINE first  == Lowest(Free)
               second == Lowest(Free \ {first})
               third  == Lowest(Free \ {first, second})
    <3>1. {first, second, third} \subseteq Channels
      BY <2>1, ThreeFree, FreeFacts, LowestIsLeast
    <3> HIDE DEF first, second, third
    <3>2. /\ data' = {first, second, third}
          /\ used' = used \cup data'
          /\ handle' = [i \in Slots |-> IF i \in data' THEN i ELSE handle[i]]
          /\ Go("request", "SetConfig")
      BY <1>8, <2>1 DEF ConfigurePipes, first, second, third
    <3>3. handle' \in [Slots -> Channels \cup {NoPipe}]
      BY <3>1, <3>2
    <3> QED BY <1>0, <1>8, <3>1, <3>2, <3>3 DEF ConfigurePipes, status
  <2>2. CASE ~(Cardinality(Free) >= 3)
    BY <1>0, <1>8, <2>2 DEF ConfigurePipes, pipes, status
  <2> QED BY <2>1, <2>2
<1>9. CASE AfterConfiguration
  BY <1>0, <1>9 DEF AfterConfiguration, pipes, status
<1>10. CASE RequestDone
  BY <1>0, <1>10 DEF RequestDone, DeviceObeys, pipes, status
<1>11. CASE RequestGone
  BY <1>0, <1>11 DEF RequestGone, RequestFailed, pipes, status
<1>12. CASE RequestHangs
  BY <1>0, <1>12 DEF RequestHangs, RequestFailed, pipes, status
<1>13. CASE RequestTimesOut
  BY <1>0, <1>13 DEF RequestTimesOut, RequestFailed, DeviceObeys, pipes, status
<1>14. CASE Connect
  BY <1>0, <1>14 DEF Connect, program, pipes, status
<1>15. CASE Disconnect
  BY <1>0, <1>15 DEF Disconnect, program
<1> QED
  BY <1>1, <1>2, <1>3, <1>4, <1>5, <1>6, <1>7, <1>8, <1>9,
     <1>10, <1>11, <1>12, <1>13, <1>14, <1>15
  DEF Next, Careless, ProgramStep, Program

\* TypeOK and JobFits always hold.
LEMMA TypeInvariant == Spec => [](TypeOK /\ JobFits)
<1>1. Init => TypeOK /\ JobFits
  BY StateFacts, PipesAssumption DEF Init, TypeOK, JobFits, Jobs, Channels
<1>2. TypeOK /\ JobFits /\ [Next]_vars => (TypeOK /\ JobFits)'
  BY TypeStep DEF vars, pipes, program, status, TypeOK, JobFits
<1> QED BY <1>1, <1>2, PTL DEF Spec

\* TypeOK of UsbHost: channels and handles stay in range whatever is plugged,
\* pulled or lost.
THEOREM TypeCorrect == Spec => []TypeOK
  BY TypeInvariant, PTL
-----------------------------------------------------------------------------
Idle == {"main", "show", "process", "task"}

Is(place, what) == at = place /\ job = what

\* How far the host and its main program are at least while the device has an
\* address or a configuration.
DeviceFits ==
  /\ device = "configured" =>
       /\ host \in {"Configured", "WaitForDevice"} \/ Is("store", "SetConfig")
       /\ \/ at \in Idle \cup {"configured"}
          \/ Is("store", "SetConfig")
          \/ at = "request" /\ job \in {"LineState", "LineEncoding"}
  /\ device = "addressed" =>
       /\ \/ host \in {"PostAddressSet", "Addressed", "WaitForDevice"}
          \/ Is("store", "PostReset") \/ at = "fail"
       /\ \/ at \in Idle \cup {"pipes", "fault", "fail"}
          \/ at = "store" /\ job \in {"PostReset", "PostAddressSet"}
          \/ at = "request" /\ job \in {"GetConfig", "SetConfig"}
          \/ Is("pulse", "Error")

\* DeviceFits is kept: the device never gets ahead of its host.
LEMMA DeviceStep ==
  ASSUME TypeOK, JobFits, DeviceFits, Next
  PROVE  DeviceFits'
<1> USE StateFacts DEF TypeOK, JobFits, DeviceFits, Is, Idle, Go, Jobs, EnumRequests, AppRequests,
                       pipes, program, status
<1>1. CASE Poll
  BY <1>1 DEF Poll
<1>2. CASE Show
  BY <1>2 DEF Show
<1>3. CASE Process
  BY <1>3 DEF Process
<1>4. CASE Dispatch
  BY <1>4 DEF Dispatch
<1>5. CASE PulseEnds
  BY <1>5 DEF PulseEnds
<1>6. CASE Store
  BY <1>6 DEF Store, NextState
<1>7. CASE Fail
  BY <1>7 DEF Fail
<1>8. CASE ConfigurePipes
  BY <1>8 DEF ConfigurePipes
<1>9. CASE AfterConfiguration
  BY <1>9 DEF AfterConfiguration
<1>10. CASE RequestDone
  BY <1>10 DEF RequestDone, DeviceObeys, Answers
<1>11. CASE RequestGone
  BY <1>11 DEF RequestGone, RequestFailed
<1>12. CASE RequestHangs
  BY <1>12 DEF RequestHangs, RequestFailed, Answers
<1>13. CASE RequestTimesOut
  BY <1>13 DEF RequestTimesOut, RequestFailed, DeviceObeys, Answers
<1>14. CASE Connect
  BY <1>14 DEF Connect
<1>15. CASE Disconnect
  BY <1>15 DEF Disconnect
<1> QED
  BY <1>1, <1>2, <1>3, <1>4, <1>5, <1>6, <1>7, <1>8, <1>9,
     <1>10, <1>11, <1>12, <1>13, <1>14, <1>15
  DEF Next, Careless, ProgramStep, Program

\* DeviceNotAhead: whatever the user, the device and the interrupt do, a device
\* with an address or a configuration is not enumerated a second time.
THEOREM DeviceCorrect == Spec => []DeviceNotAhead
<1>1. Init => DeviceFits
  BY DEF Init, DeviceFits
<1>2. TypeOK /\ JobFits /\ DeviceFits /\ [Next]_vars => DeviceFits'
  <2>1. CASE Next
    BY <2>1, DeviceStep
  <2>2. CASE UNCHANGED vars
    BY <2>2 DEF vars, pipes, program, status, DeviceFits, Is
  <2> QED BY <2>1, <2>2
<1>3. DeviceFits => DeviceNotAhead
  BY DEF DeviceFits, DeviceNotAhead, Is
<1> QED BY <1>1, <1>2, <1>3, TypeInvariant, PTL DEF Spec
-----------------------------------------------------------------------------
\* The channels at the stages of the enumeration.
NoneOpen == used = {}
ControlOpen == used = {0} /\ handle[0] = 0
AllOpen == used = 0 .. 3 /\ handle = [i \in Slots |-> i] /\ data = {1, 2, 3}

Away == {"Unattached", "WaitForDevice"}
Attached == {"Powered", "WaitForDeviceSettle", "WaitForConnect", "DoReset"}

\* What each host state says of the device, the channels and the main program
\* while nothing harmful has happened.
StageFits ==
  /\ host \in Away =>
       /\ device = "none" /\ NoneOpen
       /\ at \in Idle \cup {"configured"} \/ (at = "request" /\ job \in AppRequests)
  /\ host \in Attached =>
       /\ NoneOpen
       /\ \/ device = "powered" /\ (at \in Idle \cup {"configured"})
          \/ device = "powered" /\ job = host /\ job # "DoReset" /\ at = "store"
          \/ device = "powered" /\ host = "DoReset" /\ Is("pulse", "DoReset")
          \/ device = "default" /\ host = "DoReset" /\ Is("store", "DoReset")
  /\ host = "ConfigPipe" =>
       /\ device = "default"
       /\ \/ NoneOpen /\ at \in Idle
          \/ ControlOpen /\ Is("store", "ConfigPipe")
  /\ host = "Default" =>
       /\ device = "default" /\ ControlOpen
       /\ at \in Idle \/ (at \in {"request", "pulse", "store"} /\ job = "Default")
  /\ host = "PostReset" =>
       /\ ControlOpen
       /\ \/ device = "default" /\ (at \in Idle \/ Is("request", "PostReset"))
          \/ device = "addressed" /\ Is("store", "PostReset")
  /\ host = "PostAddressSet" =>
       /\ device = "addressed" /\ ControlOpen
       /\ at \in Idle \/ Is("store", "PostAddressSet")
  /\ host = "Addressed" =>
       \/ /\ device = "addressed" /\ ControlOpen
          /\ at \in Idle \cup {"pipes"} \/ Is("request", "GetConfig")
       \/ device = "addressed" /\ AllOpen /\ Is("request", "SetConfig")
       \/ device = "configured" /\ AllOpen /\ Is("store", "SetConfig")
  /\ host = "Configured" =>
       /\ device = "configured" /\ AllOpen
       /\ \/ at \in Idle \cup {"configured"}
          \/ at = "request" /\ job \in {"LineState", "LineEncoding"}

Careful ==
  ~spoiled =>
    /\ StageFits
    /\ resetting = (at = "pulse")
    /\ at = "show" /\ seen = "Configured" => device # "none"
    /\ led => device # "none"

\* The lowest channels of the two sets the enumeration finds free.
LEMMA FirstChannels ==
  /\ used = {} => 0 \in Free /\ Lowest(Free) = 0
  /\ used = {0} => /\ Cardinality(Free) >= 3
                   /\ Lowest(Free) = 1
                   /\ Lowest(Free \ {1}) = 2
                   /\ Lowest(Free \ {1, 2}) = 3
<1>1. ASSUME used = {} PROVE 0 \in Free /\ Lowest(Free) = 0
  <2>1. Free \in SUBSET Nat /\ 0 \in Free
    BY <1>1, PipesAssumption DEF Free, Channels
  <2>2. Lowest(Free) \in Nat /\ Lowest(Free) <= 0
    BY <2>1, LowestIsLeast
  <2> QED BY <2>1, <2>2
<1>2. ASSUME used = {0}
      PROVE  /\ Cardinality(Free) >= 3
             /\ Lowest(Free) = 1
             /\ Lowest(Free \ {1}) = 2
             /\ Lowest(Free \ {1, 2}) = 3
  <2>1. Free = 1 .. MaxPipes - 1
    BY <1>2, PipesAssumption DEF Free, Channels
  <2>2. Cardinality(Free) >= 3
    BY <2>1, PipesAssumption, FS_Interval
  <2>3. /\ Free \in SUBSET Nat /\ 1 \in Free /\ 2 \in Free /\ 3 \in Free
        /\ Free \subseteq Nat \ {0}
    BY <2>1, PipesAssumption
  <2>4. Lowest(Free) \in Nat \ {0} /\ Lowest(Free) <= 1
    BY <2>3, LowestIsLeast
  <2>5. Lowest(Free \ {1}) \in Nat \ {0, 1} /\ Lowest(Free \ {1}) <= 2
    <3> DEFINE S == Free \ {1}
    <3>1. S \in SUBSET Nat /\ 2 \in S /\ S \subseteq Nat \ {0, 1}
      BY <2>3
    <3> HIDE DEF S
    <3>2. Lowest(S) \in Nat \ {0, 1} /\ Lowest(S) <= 2
      BY <3>1, LowestIsLeast
    <3> QED BY <3>2 DEF S
  <2>6. Lowest(Free \ {1, 2}) \in Nat \ {0, 1, 2} /\ Lowest(Free \ {1, 2}) <= 3
    <3> DEFINE S == Free \ {1, 2}
    <3>1. S \in SUBSET Nat /\ 3 \in S /\ S \subseteq Nat \ {0, 1, 2}
      BY <2>3
    <3> HIDE DEF S
    <3>2. Lowest(S) \in Nat \ {0, 1, 2} /\ Lowest(S) <= 3
      BY <3>1, LowestIsLeast
    <3> QED BY <3>2 DEF S
  <2> QED BY <2>2, <2>3, <2>4, <2>5, <2>6
<1> QED BY <1>1, <1>2

\* Careful is kept by every step that does no harm.
LEMMA CarefulStep ==
  ASSUME TypeOK, JobFits, Careful, Next, ~spoiled'
  PROVE  Careful'
<1> USE StateFacts DEF TypeOK, JobFits, Careful, StageFits, Away, Attached, NoneOpen,
                       ControlOpen, AllOpen, Is, Idle, Go, Slots, pipes, program, status
<1>0. ~spoiled
  BY DEF Next, Careless, ProgramStep
<1>1. CASE Poll
  BY <1>0, <1>1 DEF Poll
<1>2. CASE Show
  BY <1>0, <1>2 DEF Show
<1>3. CASE Process
  BY <1>0, <1>3 DEF Process, EnumRequests, AppRequests
<1>4. CASE Dispatch
  <2>1. CASE host = "ConfigPipe"
    <3>1. used = {} /\ Free # {} /\ Lowest(Free) = 0
      BY <1>0, <1>4, <2>1, FirstChannels DEF Dispatch
    <3>2. /\ used' = {0} /\ handle' = [handle EXCEPT ![0] = 0] /\ data' = data
          /\ at' = "store" /\ job' = "ConfigPipe" /\ resetting' = resetting
      BY <1>4, <2>1, <3>1 DEF Dispatch, EnumRequests
    <3> QED BY <1>0, <1>4, <2>1, <3>2 DEF Dispatch
  <2>2. CASE host # "ConfigPipe"
    BY <1>0, <1>4, <2>2 DEF Dispatch, EnumRequests
  <2> QED BY <2>1, <2>2
<1>5. CASE PulseEnds
  BY <1>0, <1>5 DEF PulseEnds
<1>6. CASE Store
  BY <1>0, <1>6 DEF Store, NextState
<1>7. CASE Fail
  BY <1>0, <1>7 DEF Fail
<1>8. CASE ConfigurePipes
  BY <1>0, <1>8, FirstChannels DEF ConfigurePipes
<1>9. CASE AfterConfiguration
  BY <1>0, <1>9 DEF AfterConfiguration, EnumRequests, AppRequests
<1>10. CASE RequestDone
  BY <1>0, <1>10 DEF RequestDone, DeviceObeys, Answers, EnumRequests, AppRequests
<1>11. CASE RequestGone
  BY <1>0, <1>11 DEF RequestGone, RequestFailed, EnumRequests, AppRequests
<1>12. CASE RequestHangs
  BY <1>0, <1>12 DEF RequestHangs, RequestFailed, Answers, EnumRequests, AppRequests
<1>13. CASE Connect /\ (spoiled' = (spoiled \/ ~MayPlug))
  BY <1>0, <1>13 DEF Connect, MayPlug
<1>14. CASE Disconnect /\ (spoiled' = (spoiled \/ ~MayPull))
  <2>1. MayPull
    BY <1>14
  <2> QED BY <1>0, <1>14, <2>1 DEF Disconnect, MayPull, AppRequests
<1> QED
  BY <1>1, <1>2, <1>3, <1>4, <1>5, <1>6, <1>7, <1>8, <1>9,
     <1>10, <1>11, <1>12, <1>13, <1>14
  DEF Next, Careless, ProgramStep, Program

\* Careful always holds; after harm was done it says nothing.
LEMMA CarefulInvariant == Spec => [](TypeOK /\ Careful)
<1>1. Init => Careful
  BY DEF Init, Careful, StageFits, Away, Attached, NoneOpen, Idle
<1>2. TypeOK /\ JobFits /\ Careful /\ [Next]_vars => Careful'
  <2>1. CASE Next /\ ~spoiled'
    BY <2>1, CarefulStep
  <2>2. CASE spoiled'
    BY <2>2 DEF Careful
  <2>3. CASE UNCHANGED vars
    BY <2>3 DEF vars, pipes, program, status, Careful, StageFits, NoneOpen, ControlOpen, AllOpen, Is
  <2> QED BY <2>1, <2>2, <2>3
<1> QED BY <1>1, <1>2, TypeInvariant, PTL DEF Spec

\* ConfiguredIsReady: until the plug is moved at a harmful moment or an answer is
\* lost, HOST_STATE_Configured means a configured device with all its channels.
THEOREM ReadyCorrect == Spec => []ConfiguredIsReady
<1>1. Cardinality({1, 2, 3}) = 3 /\ {1, 2, 3} \subseteq 0 .. 3 /\ 0 \in 0 .. 3
  <2>1. \A n \in Nat \ {0} : Cardinality(1 .. n) = n
    BY FS_Interval
  <2>2. 3 \in Nat \ {0}
    OBVIOUS
  <2>3. Cardinality(1 .. 3) = 3
    BY <2>1, <2>2, Zenon
  <2>4. 1 .. 3 = {1, 2, 3}
    OBVIOUS
  <2> QED BY <2>3, <2>4
<1>2. TypeOK /\ Careful => ConfiguredIsReady
  BY <1>1 DEF Careful, StageFits, AllOpen, ConfiguredIsReady, Slots
<1> QED BY <1>2, CarefulInvariant, PTL

\* NoPipeLeaks: under the same condition every channel is free again when the
\* device is gone or the next one arrives.
THEOREM NoLeakCorrect == Spec => []NoPipeLeaks
<1>1. TypeOK /\ Careful => NoPipeLeaks
  BY DEF Careful, StageFits, NoneOpen, Away, Attached, NoPipeLeaks
<1> QED BY <1>1, CarefulInvariant, PTL

\* LedTells: under the same condition the LED is not lit without a device.
THEOREM LedCorrect == Spec => []LedTells
<1>1. Careful => LedTells
  BY DEF Careful, LedTells
<1> QED BY <1>1, CarefulInvariant, PTL
=============================================================================
