-------------------------------- MODULE Xhci --------------------------------
(***************************************************************************)
(* Configuration of the root hub ports by the xHCI driver                  *)
(* (src/kernel/usb/xhci/xhci.cpp): from a port status change through reset, *)
(* slot assignment, addressing and the descriptor requests of              *)
(* usb/device.cpp to configured endpoints.                                 *)
(*                                                                         *)
(* The driver runs in the main task only: Initialize once, then            *)
(* ProcessEvents whenever the interrupt handler sends a message, one event *)
(* of the event ring per handler.  The controller, the cables and the      *)
(* devices take their steps in between.  Of the controller the model keeps *)
(* what the driver reads: the PORTSC bits, the commands in the order they  *)
(* were pushed, and the event ring.                                        *)
(***************************************************************************)
EXTENDS Integers, Sequences, FiniteSets

CONSTANTS NumPorts,   \* MaxPorts()
          Removable,  \* ports whose device may be unplugged
          Supported   \* ports whose device has a class driver

ASSUME NumPortsAssumption == NumPorts \in Nat \ {0}
ASSUME RemovableAssumption == Removable \subseteq 1 .. NumPorts
ASSUME SupportedAssumption == Supported \subseteq 1 .. NumPorts

Port == 1 .. NumPorts
NoPort == 0

(* Device slots.  No slot is ever given back, but a port asks for one only *)
(* once (SlotsDistinct), so the model needs no more slots than ports; the  *)
(* driver enables kDeviceSize = 8.                                         *)
Slot == 1 .. NumPorts

ConfigPhase ==
  {"NotConnected", "WaitingAddressed", "ResettingPort", "EnablingSlot",
   "AddressingDevice", "InitializingDevice", "ConfiguringEndpoints", "Configured"}

(* The phases of the sequence that one port at a time may be in.           *)
Addressing == {"ResettingPort", "EnablingSlot", "AddressingDevice"}

VARIABLES
  boot,               \* the port Initialize looks at next
  port_config_phase,
  addressing_port,
  devices,            \* the Device of each slot
  portsc,             \* PORTSC: connected, enabled, and the change bits
  commands,           \* command TRBs not executed yet
  events              \* event TRBs not popped yet

vars == <<boot, port_config_phase, addressing_port, devices, portsc, commands, events>>

PortBits == [connected : BOOLEAN, enabled : BOOLEAN, csc : BOOLEAN, prc : BOOLEAN]

(* `port` is root_hub_port_num of the device context, which the controller *)
(* fills in; `init` is initialize_phase_, 0 before StartInitialize;        *)
(* `transfer` says that a control transfer is under way.                   *)
NoDevice == [allocated |-> FALSE, port |-> NoPort, init |-> 0, transfer |-> FALSE]
NewDevice == [NoDevice EXCEPT !.allocated = TRUE]

(* `port` of an Enable Slot command or of its completion is not in the TRB: *)
(* it is the port on whose behalf the driver pushed the command, kept to    *)
(* state SlotForItsPort.                                                    *)
Command(type, slot, port) == [type |-> type, slot |-> slot, port |-> port]
PortStatusChange(p) == Command("PortStatusChange", 0, p)
Transfer(s, ok) == Command("Transfer", s, IF ok THEN 1 ELSE 0)
Commands == {"EnableSlot", "AddressDevice", "ConfigureEndpoint"}

Init ==
  /\ boot = 1
  /\ port_config_phase = [p \in Port |-> "NotConnected"]
  /\ addressing_port = NoPort
  /\ devices = [s \in Slot |-> NoDevice]
  /\ portsc = [p \in Port |-> [connected |-> FALSE, enabled |-> FALSE,
                               csc |-> FALSE, prc |-> FALSE]]
  /\ commands = <<>>
  /\ events = <<>>
-----------------------------------------------------------------------------
(* The controller and the devices.                                         *)

Changed(bits) == bits.csc \/ bits.prc

(* An event is posted when the first change bit of the port rises; the     *)
(* driver clears csc only when it resets the port.                         *)
SetPort(p, bits) ==
  /\ portsc' = [portsc EXCEPT ![p] = bits]
  /\ events' = IF Changed(bits) /\ ~Changed(portsc[p])
               THEN Append(events, PortStatusChange(p)) ELSE events
  /\ UNCHANGED <<boot, port_config_phase, addressing_port, devices, commands>>

Plug(p) ==
  /\ ~portsc[p].connected
  /\ SetPort(p, [portsc[p] EXCEPT !.connected = TRUE, !.csc = TRUE])

Unplug(p) ==
  /\ p \in Removable
  /\ portsc[p].connected
  /\ SetPort(p, [portsc[p] EXCEPT !.connected = FALSE, !.enabled = FALSE, !.csc = TRUE])

Completions(type) ==
  {events[i] : i \in {k \in DOMAIN events : events[k].type = type}}

FreeSlot(s) ==
  /\ ~devices[s].allocated
  /\ \A e \in Completions("EnableSlot") : e.slot # s

(* The next command completes.  A device that is gone has no port.         *)
ExecuteCommand ==
  /\ commands # <<>>
  /\ LET cmd == Head(commands) IN
     /\ commands' = Tail(commands)
     /\ \E s \in Slot :
          /\ IF cmd.type = "EnableSlot" THEN FreeSlot(s) ELSE s = cmd.slot
          /\ events' = Append(events, [cmd EXCEPT !.slot = s])
          /\ devices' = IF cmd.type = "AddressDevice" /\ portsc[cmd.port].enabled
                        THEN [devices EXCEPT ![s].port = cmd.port] ELSE devices
  /\ UNCHANGED <<boot, port_config_phase, addressing_port, portsc>>

CompleteTransfer(s) ==
  /\ devices[s].transfer
  /\ devices' = [devices EXCEPT ![s].transfer = FALSE]
  /\ events' = Append(events, Transfer(s, portsc[devices[s].port].enabled))
  /\ UNCHANGED <<boot, port_config_phase, addressing_port, portsc, commands>>
-----------------------------------------------------------------------------
(* The driver.  `ring` is the event ring without the event being handled.  *)

(* port.Reset() of the ports in `ps` (none or one): it clears both change  *)
(* bits, and waits until the port is enabled and its prc is set.           *)
Reset(ps, ring) ==
  /\ portsc' = [p \in Port |->
       IF p \in ps THEN [connected |-> TRUE, enabled |-> TRUE, csc |-> FALSE, prc |-> TRUE]
       ELSE portsc[p]]
  /\ events' = IF ps = {} THEN ring ELSE Append(ring, PortStatusChange(CHOOSE p \in ps : TRUE))

(* Seeded fault: addressing_port is not looked at.                         *)
ResetPortAnyway(p, ring) ==
  /\ port_config_phase' = IF portsc[p].connected
                          THEN [port_config_phase EXCEPT ![p] = "ResettingPort"]
                          ELSE port_config_phase
  /\ addressing_port' = IF portsc[p].connected THEN p ELSE addressing_port
  /\ Reset(IF portsc[p].connected THEN {p} ELSE {}, ring)

(* ResetPort of a port that is kNotConnected.                              *)
ResetPort(p, ring) ==
  LET starts == portsc[p].connected /\ addressing_port = NoPort
  IN  /\ port_config_phase' = IF ~portsc[p].connected THEN port_config_phase
                              ELSE [port_config_phase EXCEPT ![p] =
                                      IF starts THEN "ResettingPort" ELSE "WaitingAddressed"]
      /\ addressing_port' = IF starts THEN p ELSE addressing_port
      /\ Reset(IF starts THEN {p} ELSE {}, ring)

(* One iteration of the loop of Initialize over the ports.                 *)
Boot ==
  /\ boot \in Port
  /\ boot' = boot + 1
  /\ IF port_config_phase[boot] = "NotConnected"
     THEN ResetPort(boot, events)
     ELSE UNCHANGED <<port_config_phase, addressing_port, portsc, events>>
  /\ UNCHANGED <<devices, commands>>

(* ProcessEvent, for an event the handler answers with an error or without *)
(* doing anything.                                                         *)
Ignore(ring) ==
  /\ events' = ring
  /\ UNCHANGED <<port_config_phase, addressing_port, devices, portsc, commands>>

EnableSlot(p, ring) ==
  IF portsc[p].enabled /\ portsc[p].prc
  THEN /\ portsc' = [portsc EXCEPT ![p].prc = FALSE]
       /\ port_config_phase' = [port_config_phase EXCEPT ![p] = "EnablingSlot"]
       /\ commands' = Append(commands, Command("EnableSlot", 0, p))
       /\ events' = ring
       /\ UNCHANGED <<addressing_port, devices>>
  ELSE Ignore(ring)

(* Seeded fault: a change in any later phase starts the sequence again.    *)
RestartOnChange(p, ring) ==
  IF port_config_phase[p] = "ResettingPort" THEN EnableSlot(p, ring)
  ELSE ResetPort(p, ring) /\ UNCHANGED <<devices, commands>>

OnPortStatusChange(p, ring) ==
  CASE port_config_phase[p] = "NotConnected" ->
         ResetPort(p, ring) /\ UNCHANGED <<devices, commands>>
    [] port_config_phase[p] = "ResettingPort" -> EnableSlot(p, ring)
    [] OTHER -> Ignore(ring)

AddressDevice(s, ring) ==
  IF addressing_port # NoPort /\ port_config_phase[addressing_port] = "EnablingSlot"
  THEN /\ devices' = [devices EXCEPT ![s] = NewDevice]
       /\ port_config_phase' = [port_config_phase EXCEPT ![addressing_port] = "AddressingDevice"]
       /\ commands' = Append(commands, Command("AddressDevice", s, addressing_port))
       /\ events' = ring
       /\ UNCHANGED <<addressing_port, portsc>>
  ELSE Ignore(ring)

(* Device::StartInitialize asks for the device descriptor.                 *)
StartInitialize(dev) == [dev EXCEPT !.init = 1, !.transfer = TRUE]

(* Seeded fault: nobody's turn comes.                                      *)
NextIsNobody == {}

(* The port that ResetPort is called for when addressing_port is released: *)
(* the first that waits, if its device is still there.                     *)
NextToReset ==
  {p \in Port : /\ port_config_phase[p] = "WaitingAddressed"
                /\ portsc[p].connected
                /\ \A q \in 1 .. p - 1 : port_config_phase[q] # "WaitingAddressed"}

(* Seeded fault: addressing_port is not released.                          *)
AddressedButHeld(s, ring) ==
  LET port == devices[s].port
  IN  IF port # NoPort /\ port = addressing_port
         /\ port_config_phase[port] = "AddressingDevice"
      THEN /\ port_config_phase' = [port_config_phase EXCEPT ![port] = "InitializingDevice"]
           /\ devices' = [devices EXCEPT ![s] = StartInitialize(@)]
           /\ events' = ring
           /\ UNCHANGED <<addressing_port, portsc, commands>>
      ELSE Ignore(ring)

OnDeviceAddressed(s, ring) ==
  LET port == devices[s].port
      next == NextToReset
  IN  IF port # NoPort /\ port = addressing_port
         /\ port_config_phase[port] = "AddressingDevice"
      THEN /\ addressing_port' = IF next = {} THEN NoPort ELSE CHOOSE p \in next : TRUE
           /\ port_config_phase' = [p \in Port |-> IF p \in next THEN "ResettingPort"
                                                   ELSE IF p = port THEN "InitializingDevice"
                                                   ELSE port_config_phase[p]]
           /\ Reset(next, ring)
           /\ devices' = [devices EXCEPT ![s] = StartInitialize(@)]
           /\ UNCHANGED commands
      ELSE Ignore(ring)

(* Device::OnControlCompleted while the device is initialised, with the    *)
(* phases it calls: the device descriptor (1), the configuration           *)
(* descriptor (2), after which a device no class driver supports is left   *)
(* alone, and SetConfiguration (3).  `transfer` tells whether the phase     *)
(* issues another control transfer.                                        *)
OnControlCompleted(dev) ==
  IF dev.init \in 1 .. 3 /\ (dev.init = 2 => dev.port \in Supported)
  THEN [dev EXCEPT !.init = @ + 1, !.transfer = dev.init < 3]
  ELSE dev

(* A failed transfer is not answered.                                      *)
OnTransferEventReceived(dev, ok) == IF ok THEN OnControlCompleted(dev) ELSE dev

(* A port without a connection reports speed 0.                            *)
ConfigureEndpoints(s, port) ==
  IF portsc[port].connected
  THEN /\ port_config_phase' = [port_config_phase EXCEPT ![port] = "ConfiguringEndpoints"]
       /\ commands' = Append(commands, Command("ConfigureEndpoint", s, port))
  ELSE UNCHANGED <<port_config_phase, commands>>

OnTransfer(s, ok, ring) ==
  LET dev == OnTransferEventReceived(devices[s], ok)
  IN  /\ devices' = [devices EXCEPT ![s] = dev]
      /\ events' = ring
      /\ IF ok /\ dev.init = 4 /\ port_config_phase[dev.port] = "InitializingDevice"
         THEN ConfigureEndpoints(s, dev.port)
         ELSE UNCHANGED <<port_config_phase, commands>>
      /\ UNCHANGED <<addressing_port, portsc>>

OnEndpointsConfigured(s, ring) ==
  LET port == devices[s].port
  IN  IF port_config_phase[port] = "ConfiguringEndpoints"
      THEN /\ port_config_phase' = [port_config_phase EXCEPT ![port] = "Configured"]
           /\ events' = ring
           /\ UNCHANGED <<addressing_port, devices, portsc, commands>>
      ELSE Ignore(ring)

ProcessEvent ==
  /\ boot \notin Port
  /\ events # <<>>
  /\ LET event == Head(events)
         ring  == Tail(events)
     IN  \/ event.type = "PortStatusChange" /\ OnPortStatusChange(event.port, ring)
         \/ event.type = "EnableSlot" /\ AddressDevice(event.slot, ring)
         \/ event.type = "AddressDevice" /\ OnDeviceAddressed(event.slot, ring)
         \/ event.type = "Transfer" /\ OnTransfer(event.slot, event.port = 1, ring)
         \/ event.type = "ConfigureEndpoint" /\ OnEndpointsConfigured(event.slot, ring)
  /\ UNCHANGED boot
-----------------------------------------------------------------------------
Next ==
  \/ \E p \in Port : Plug(p) \/ Unplug(p)
  \/ ExecuteCommand
  \/ \E s \in Slot : CompleteTransfer(s)
  \/ Boot
  \/ ProcessEvent

Spec == Init /\ [][Next]_vars

(* The controller executes every command and transfer it has been given;   *)
(* the main task drains the event ring whenever it is woken, and outranks  *)
(* every other task.  Nobody has to plug anything.                         *)
Fairness ==
  /\ WF_vars(ExecuteCommand)
  /\ \A s \in Slot : WF_vars(CompleteTransfer(s))
  /\ WF_vars(Boot)
  /\ WF_vars(ProcessEvent)

FairSpec == Spec /\ Fairness
-----------------------------------------------------------------------------
TypeOK ==
  /\ boot \in 1 .. NumPorts + 1
  /\ port_config_phase \in [Port -> ConfigPhase]
  /\ addressing_port \in Port \cup {NoPort}
  /\ devices \in [Slot -> [allocated : BOOLEAN, port : Port \cup {NoPort},
                           init : 0 .. 4, transfer : BOOLEAN]]
  /\ portsc \in [Port -> PortBits]
  /\ commands \in Seq([type : Commands, slot : Slot \cup {0}, port : Port])
  /\ events \in Seq([type : Commands \cup {"PortStatusChange", "Transfer"},
                     slot : Slot \cup {0}, port : Port \cup {0}])

(* From reset to address assignment only one port is dealt with, and       *)
(* addressing_port is its number (the comments at xhci.cpp:36 and :66).    *)
OneAddressingPort ==
  \A p \in Port : port_config_phase[p] \in Addressing <=> p = addressing_port

(* An Enable Slot command or its completion, which do not say for which    *)
(* port they are, belong to addressing_port: no slot goes to another port. *)
SlotForItsPort ==
  \A c \in {commands[i] : i \in DOMAIN commands} \cup Completions("EnableSlot") :
    c.type = "EnableSlot" =>
      c.port = addressing_port /\ port_config_phase[c.port] = "EnablingSlot"

(* One device per port: no two slots hold the same port, and a port that   *)
(* has got past its addressing has a slot that knows it.                   *)
SlotsDistinct ==
  /\ \A s, t \in Slot : devices[s].port # NoPort /\ devices[s].port = devices[t].port => s = t
  /\ \A p \in Port :
       port_config_phase[p] \in {"InitializingDevice", "ConfiguringEndpoints", "Configured"} =>
         \E s \in Slot : devices[s].allocated /\ devices[s].port = p

(* A port has at most one command under way, not executed or not answered  *)
(* yet, so the command ring never holds more commands than there are ports. *)
OneCommandPerPort ==
  /\ \A i, j \in DOMAIN commands : commands[i].port = commands[j].port => i = j
  /\ \A i, j \in DOMAIN events :
       events[i].type \in Commands /\ events[j].type \in Commands
       /\ events[i].port = events[j].port => i = j
  /\ \A i \in DOMAIN commands, j \in DOMAIN events :
       events[j].type \in Commands => commands[i].port # events[j].port

(* The transitions of the diagram at xhci.cpp:41-61, and the detour of the *)
(* ports that wait.                                                        *)
Diagram ==
  {<<"NotConnected", "ResettingPort">>, <<"NotConnected", "WaitingAddressed">>,
   <<"WaitingAddressed", "ResettingPort">>, <<"ResettingPort", "EnablingSlot">>,
   <<"EnablingSlot", "AddressingDevice">>, <<"AddressingDevice", "InitializingDevice">>,
   <<"InitializingDevice", "ConfiguringEndpoints">>, <<"ConfiguringEndpoints", "Configured">>}

FollowsDiagram ==
  [][\A p \in Port : port_config_phase'[p] # port_config_phase[p] =>
       <<port_config_phase[p], port_config_phase'[p]>> \in Diagram]_vars

NothingUnplugged == \A p \in Port : portsc[p].csc => portsc[p].connected

(* Every supported device is configured in the end, whenever it is plugged *)
(* in, unless something is unplugged.                                      *)
EveryDeviceConfigured ==
  []NothingUnplugged =>
    \A p \in Supported : portsc[p].connected ~> port_config_phase[p] = "Configured"

(* kWaitingAddressed is the state of a port that waits for its turn        *)
(* (xhci.cpp:38-39): the turn comes, unless its device goes.               *)
WaitingPortGetsItsTurn ==
  \A p \in Port : port_config_phase[p] = "WaitingAddressed" ~>
    port_config_phase[p] # "WaitingAddressed" \/ ~portsc[p].connected
=============================================================================
