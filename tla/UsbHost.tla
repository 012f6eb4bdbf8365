------------------------------- MODULE UsbHost -------------------------------
(***************************************************************************)
(* Enumeration of the SSM.  The main program steps through the host states *)
(* (USB_Host_ProcessNextHostState) and, from Addressed on, configures the  *)
(* device (USBVCH_Process).  The port interrupt stores Powered or          *)
(* WaitForDevice into the same USB_HostState at any moment, so whatever    *)
(* the main program stores after a delay, a port reset or a control        *)
(* request may overwrite what the interrupt stored meanwhile.              *)
(*                                                                         *)
(* Pipes are the channels of the USB core.  The disconnect interrupt       *)
(* deletes those named in the first four entries of USBHost_Pipe_State.    *)
(***************************************************************************)
EXTENDS Naturals, FiniteSets

CONSTANT MaxPipes   \* channels of the USB core, USBH0_MAX_PIPE_NUM (14)

ASSUME PipesAssumption == MaxPipes \in Nat /\ MaxPipes >= 4

VARIABLES
  device,     \* what is plugged in and how far its own enumeration is
  host,       \* USB_HostState
  at,         \* the main program's place in usb_host_communication
  job,        \* the host state or request it is working on there
  resetting,  \* port_reset_active
  used,       \* allocated channels
  handle,     \* handle[i]: USBHost_Pipe_State[i].pipe_handle, i < 4
  data,       \* the channels of the bulk and notification pipes
  seen,       \* USBHostState, the main loop's copy of USB_HostState
  led,        \* the USB status LED is lit (P5.9 is low)
  spoiled     \* history: the plug was moved at a harmful moment, or an answer lost

program == <<at, job>>
pipes   == <<used, handle, data>>
status  == <<seen, led>>
vars    == <<device, host, at, job, resetting, used, handle, data, seen, led, spoiled>>

Channels == 0 .. MaxPipes - 1
NoPipe   == MaxPipes
Slots    == 0 .. 3

\* The state a successful job stores into USB_HostState.
NextState ==
  [Powered |-> "WaitForDeviceSettle", WaitForDeviceSettle |-> "WaitForConnect",
   WaitForConnect |-> "DoReset", DoReset |-> "ConfigPipe", ConfigPipe |-> "Default",
   Default |-> "PostReset", PostReset |-> "PostAddressSet",
   PostAddressSet |-> "Addressed", SetConfig |-> "Configured"]

HostStates == {"WaitForDevice", "Unattached", "Powered"} \cup
              {NextState[s] : s \in DOMAIN NextState}
EnumRequests == {"Default", "PostReset"}
AppRequests  == {"GetConfig", "SetConfig", "LineState", "LineEncoding"}
Jobs == DOMAIN NextState \cup AppRequests \cup {"None", "Error"}

\* Mutant: the search for a free channel goes one too far.
FreeMutant == (0 .. MaxPipes) \ used

Free == Channels \ used
Lowest(S) == CHOOSE c \in S : \A d \in S : c <= d

Init ==
  /\ device = "none" /\ host = "Unattached"
  /\ at = "main" /\ job = "None" /\ resetting = FALSE
  /\ used = {} /\ data = {}
  /\ handle = [i \in Slots |-> NoPipe]
  /\ seen = "WaitForDevice" /\ led = FALSE
  /\ spoiled = FALSE

Go(place, what) == at' = place /\ job' = what
-----------------------------------------------------------------------------
(***************************************************************************)
(* The main program outside control requests.                              *)
(***************************************************************************)

\* usb_host_communication begins with a copy of the host state.  A remote
\* wakeup, its only other concern, needs a suspended bus and nobody suspends it.
Poll ==
  /\ at = "main"
  /\ seen' = host
  /\ Go("show", "None")
  /\ UNCHANGED <<device, host, resetting, pipes, led>>

\* The LED follows that copy.
Show ==
  /\ at = "show"
  /\ led' = (led \/ seen = "Configured")
  /\ Go("process", "None")
  /\ UNCHANGED <<device, host, resetting, pipes, seen>>

\* USBVCH_Process: only an addressed device is configured.
Process ==
  /\ at = "process"
  /\ IF host = "Addressed" THEN Go("request", "GetConfig") ELSE Go("task", "None")
  /\ UNCHANGED <<device, host, resetting, pipes, status>>

\* USB_Host_ProcessNextHostState up to its first wait.  WaitMSRemaining is
\* never set, so nothing happens in WaitForDevice.
Dispatch ==
  /\ at = "task"
  /\ \/ /\ host \in {"Powered", "WaitForDeviceSettle", "WaitForConnect", "PostAddressSet"}
        /\ Go("store", host) /\ UNCHANGED <<resetting, pipes>>
     \/ /\ host = "DoReset"
        /\ Go("pulse", host) /\ resetting' = TRUE /\ UNCHANGED pipes
     \/ /\ host = "ConfigPipe" /\ Free # {}
        /\ used' = used \cup {Lowest(Free)}
        /\ handle' = [handle EXCEPT ![0] = Lowest(Free)]
        /\ Go("store", host) /\ UNCHANGED <<resetting, data>>
     \/ /\ host = "ConfigPipe" /\ Free = {}
        /\ handle' = [handle EXCEPT ![0] = NoPipe]
        /\ Go("fail", host) /\ UNCHANGED <<resetting, used, data>>
     \/ /\ host \in EnumRequests
        /\ Go("request", host) /\ UNCHANGED <<resetting, pipes>>
     \/ /\ host \in {"WaitForDevice", "Unattached", "Addressed", "Configured"}
        /\ Go("main", "None") /\ UNCHANGED <<resetting, pipes>>
  /\ UNCHANGED <<device, host, status>>

\* The 100 ms of XMC_USBH_PortReset are over.  If a device is there the core
\* enables the port and the interrupt confirms the reset; if not, the program
\* waits for the enable bit, which only another reset would bring.
PulseEnds ==
  /\ at = "pulse"
  /\ IF device = "none"
     THEN Go("enable", job) /\ UNCHANGED <<device, resetting>>
     ELSE /\ device' = "default" /\ resetting' = FALSE
          /\ IF job = "Error" THEN Go("main", "None") ELSE Go("store", job)
  /\ UNCHANGED <<host, pipes, status>>

\* Mutant: SetConfiguration does not store Configured.
StoreMutant ==
  /\ at = "store"
  /\ host' = IF job = "SetConfig" THEN host ELSE NextState[job]
  /\ IF job = "SetConfig" THEN Go("configured", "None") ELSE Go("main", "None")
  /\ UNCHANGED <<device, resetting, pipes, status>>

\* The end of a job: USB_HostState is overwritten, whatever it is by now.
Store ==
  /\ at = "store"
  /\ host' = NextState[job]
  /\ IF job = "SetConfig" THEN Go("configured", "None") ELSE Go("main", "None")
  /\ UNCHANGED <<device, resetting, pipes, status>>

\* The error tail of USB_Host_ProcessNextHostState: DeviceUnattached, then
\* USB_ResetInterface.
Fail ==
  /\ at = "fail"
  /\ host' = "WaitForDevice"
  /\ Go("pulse", "Error") /\ resetting' = TRUE
  /\ UNCHANGED <<device, pipes, status>>

\* CDC_Host_ConfigurePipes takes the first three free channels and enters
\* each of them in USBHost_Pipe_State under its own number.  Without a free
\* channel it indexes that array with a null handle, far outside.
ConfigurePipes ==
  /\ at = "pipes"
  /\ IF Cardinality(Free) >= 3
     THEN LET first == Lowest(Free)
              second == Lowest(Free \ {first})
              third == Lowest(Free \ {first, second})
          IN  /\ data' = {first, second, third}
              /\ used' = used \cup data'
              /\ handle' = [i \in Slots |-> IF i \in data' THEN i ELSE handle[i]]
              /\ Go("request", "SetConfig")
     ELSE Go("fault", "None") /\ UNCHANGED pipes
  /\ UNCHANGED <<device, host, resetting, status>>

\* USBVCH_Process after SetConfiguration: USB_HostState is read once more.
AfterConfiguration ==
  /\ at = "configured"
  /\ IF host = "Configured" THEN Go("request", "LineState") ELSE Go("task", "None")
  /\ UNCHANGED <<device, host, resetting, pipes, status>>
-----------------------------------------------------------------------------
(***************************************************************************)
(* Control requests: USBH_WaitForTransfer polls for the completion, the    *)
(* host state WaitForDevice and the end of 5000 ms.                        *)
(***************************************************************************)

\* The device answers if it is at the stage, and so at the address, that the
\* request is meant for and the control pipe still exists.
Answers ==
  /\ handle[0] \in used
  /\ device = CASE job \in EnumRequests -> "default"
                [] job \in {"GetConfig", "SetConfig"} -> "addressed"
                [] OTHER -> "configured"

DeviceObeys ==
  device' = CASE job = "PostReset" -> "addressed"
              [] job = "SetConfig" -> "configured"
              [] OTHER -> device

RequestDone ==
  /\ at = "request" /\ Answers
  /\ DeviceObeys
  /\ CASE job = "Default" -> Go("pulse", job)
       [] job \in {"PostReset", "SetConfig"} -> Go("store", job)
       [] job = "GetConfig" -> Go("pipes", job)
       [] job = "LineState" -> Go("request", "LineEncoding")
       [] job = "LineEncoding" -> Go("task", "None")
  /\ resetting' = (job = "Default")
  /\ UNCHANGED <<host, pipes, status>>

\* Mutant: a failed enumeration request is tried again.
RetryMutant ==
  IF job \in EnumRequests
  THEN Go("main", "None") /\ UNCHANGED host
  ELSE Go("task", "None") /\ host' = "WaitForDevice"

\* Mutant: SetConfiguration stores Configured whether it succeeded or not.
IgnoreMutant ==
  IF job \in EnumRequests \cup {"SetConfig"}
  THEN Go(IF job = "SetConfig" THEN "store" ELSE "fail", job) /\ UNCHANGED host
  ELSE Go("task", "None") /\ host' = "WaitForDevice"

\* What a failed request leads to: during the enumeration the error tail, in
\* USBVCH_Process just the state WaitForDevice.
RequestFailed ==
  IF job \in EnumRequests
  THEN Go("fail", job) /\ UNCHANGED host
  ELSE Go("task", "None") /\ host' = "WaitForDevice"

\* The disconnect is noticed.
RequestGone ==
  /\ at = "request" /\ host = "WaitForDevice"
  /\ RequestFailed
  /\ UNCHANGED <<device, resetting, pipes, status>>

\* Mutant: no timeout as long as something is attached.
RequestHangsMutant ==
  /\ at = "request" /\ ~Answers /\ device = "none"
  /\ RequestFailed
  /\ UNCHANGED <<device, resetting, pipes, status>>

\* No answer can come and the wait times out.
RequestHangs ==
  /\ at = "request" /\ ~Answers
  /\ RequestFailed
  /\ UNCHANGED <<device, resetting, pipes, status>>

\* The device is able to answer but does not, or its answer is lost.
RequestTimesOut ==
  /\ at = "request" /\ Answers
  /\ RequestFailed
  /\ DeviceObeys \/ UNCHANGED device
  /\ UNCHANGED <<resetting, pipes, status>>
-----------------------------------------------------------------------------
(***************************************************************************)
(* The port interrupt.  Connects and disconnects during a port reset are   *)
(* ignored.                                                                *)
(***************************************************************************)

Connect ==
  /\ device = "none"
  /\ device' = "powered"
  /\ host' = IF resetting THEN host ELSE "Powered"
  /\ UNCHANGED <<program, resetting, pipes, status>>

\* Mutant: the control pipe is not deleted.
DisconnectMutant ==
  /\ device # "none"
  /\ device' = "none"
  /\ IF resetting THEN UNCHANGED <<host, used, led>>
     ELSE /\ host' = "WaitForDevice" /\ led' = FALSE
          /\ used' = used \ {handle[i] : i \in Slots \ {0}}
  /\ UNCHANGED <<program, resetting, handle, data, seen>>

\* Mutant: the LED is left alone.
DarkMutant ==
  /\ device # "none"
  /\ device' = "none"
  /\ IF resetting THEN UNCHANGED <<host, used>>
     ELSE host' = "WaitForDevice" /\ used' = used \ {handle[i] : i \in Slots}
  /\ UNCHANGED <<program, resetting, handle, data, status>>

\* CDC_USB_PortCb turns the LED off and deletes the pipes of the first four
\* slots.
Disconnect ==
  /\ device # "none"
  /\ device' = "none"
  /\ IF resetting THEN UNCHANGED <<host, used, led>>
     ELSE /\ host' = "WaitForDevice" /\ led' = FALSE
          /\ used' = used \ {handle[i] : i \in Slots}
  /\ UNCHANGED <<program, resetting, handle, data, seen>>
-----------------------------------------------------------------------------
Program ==
  \/ Poll \/ Show \/ Process \/ Dispatch \/ PulseEnds \/ Store \/ Fail
  \/ ConfigurePipes \/ AfterConfiguration
  \/ RequestDone \/ RequestGone \/ RequestHangs

\* Moments at which the plug may be pulled without harm: between two jobs,
\* though not between Poll and the LED, and while USBVCH_Process waits for an
\* answer.  It may be put back once no request is waiting any more.
MayPull == \/ at \in {"main", "process", "task", "configured"}
           \/ at = "request" /\ job \in AppRequests
MayPlug == at # "request"

ProgramStep == Program /\ UNCHANGED spoiled

\* A device that answers, whatever the user does with the plug; and one that
\* need not answer.
Careless ==
  \/ ProgramStep
  \/ Connect    /\ spoiled' = (spoiled \/ ~MayPlug)
  \/ Disconnect /\ spoiled' = (spoiled \/ ~MayPull)

Next == Careless \/ (RequestTimesOut /\ spoiled' = TRUE)

\* The main loop calls usb_host_communication forever.
Fairness == WF_vars(ProgramStep)

CarelessSpec == Init /\ [][Careless]_vars /\ Fairness
Spec         == Init /\ [][Next]_vars /\ Fairness
-----------------------------------------------------------------------------
(***************************************************************************)
(* Properties.                                                             *)
(***************************************************************************)

\* Every variable keeps its type.
TypeOK ==
  /\ device \in {"none", "powered", "default", "addressed", "configured"}
  /\ host \in HostStates
  /\ at \in {"main", "show", "process", "task", "store", "pulse", "enable", "fail", "request",
             "pipes", "configured", "fault"}
  /\ job \in Jobs
  /\ resetting \in BOOLEAN
  /\ used \subseteq Channels
  /\ handle \in [Slots -> Channels \cup {NoPipe}]
  /\ data \subseteq Channels
  /\ seen \in HostStates /\ led \in BOOLEAN
  /\ spoiled \in BOOLEAN

\* "Indicates that the device has been configured into a valid device
\* configuration, ready for general use" (HOST_STATE_Configured): the device
\* is there and configured, and its pipes exist, as long as the plug is moved
\* only between the steps of the enumeration and answers arrive.
ConfiguredIsReady ==
  ~spoiled /\ host = "Configured" =>
    /\ device = "configured"
    /\ handle[0] \in used /\ Cardinality(data) = 3 /\ data \subseteq used
    /\ handle[0] \notin data

\* The disconnect interrupt deletes every pipe the enumeration created, so
\* each device finds all channels free again, under the same condition.
NoPipeLeaks ==
  ~spoiled /\ host \in {"WaitForDevice", "Unattached", "Powered", "WaitForDeviceSettle",
            "WaitForConnect", "DoReset"} => used = {}

\* "LED pin to indicate USB status": it never stays lit without a device,
\* unless the plug is pulled between the copy of the host state and the LED.
LedTells == ~spoiled /\ led => device # "none"

\* "Call USBVCH_Process() continuously to put the attached device in
\* Configured Mode": a device that stays attached ends up configured.
GetsConfigured == <>[](device # "none") => <>[](host = "Configured")

\* With a careful user and a device that answers it does.
CarefulGetsConfigured == []~spoiled => GetsConfigured

\* No device is further than the host thinks, unless the host gave it up: a
\* configured or addressed device is never enumerated a second time.
DeviceNotAhead ==
  at = "main" /\ host # "WaitForDevice" =>
    /\ device = "configured" => host = "Configured"
    /\ device = "addressed" => host \in {"PostAddressSet", "Addressed", "Configured"}

\* Whatever the user and the device do, the main loop goes on, unless it is
\* caught in a port reset without a device or runs out of channels: no
\* control request blocks forever.
OnlyResetHangs ==
  \/ []<>(at = "main")
  \/ <>[](at \in {"enable", "fault"})
=============================================================================
