-------------------------- MODULE CommandRingProofs --------------------------
(***************************************************************************)
(* The configuration of the ports and the ring that holds its commands,    *)
(* for any number of ports and any size of the ring that leaves an entry   *)
(* free besides the link.                                                  *)
(*                                                                         *)
(* First Xhci by itself, whatever is plugged and unplugged.  The inductive *)
(* invariant, Good, relates the phase of a port to the one command it may  *)
(* have under way: a command that has not been executed (Unexecuted), or   *)
(* whose completion has not been handled (Posted), pins down the phase of  *)
(* its port and the state of its slot.  Good is a predicate of five        *)
(* values, so that a handler that changes several of them is followed one  *)
(* change at a time.                                                       *)
(*                                                                         *)
(* Then the ring.  Laid says where the commands lie: from where the        *)
(* controller goes on, in rounds of W entries whose cycle bits alternate.  *)
(* That the ring is never full follows from OneCommandPerPort of Xhci:     *)
(* there are no more commands than ports.                                  *)
(***************************************************************************)
EXTENDS CommandRing, FiniteSetTheorems, TLAPS

Device == [allocated : BOOLEAN, port : Port \cup {NoPort}, init : 0 .. 4, transfer : BOOLEAN]
CommandTRB == [type : Commands, slot : Slot \cup {0}, port : Port]
EventTRB == [type : Commands \cup {"PortStatusChange", "Transfer"},
             slot : Slot \cup {0}, port : Port \cup {0}]

Past == {"InitializingDevice", "ConfiguringEndpoints", "Configured"}

(* What a command that the controller has not executed says.               *)
Unexecuted(c, ph, dv) ==
  /\ c.type = "EnableSlot" => ph[c.port] = "EnablingSlot"
  /\ c.type = "AddressDevice" =>
       /\ c.slot \in Slot
       /\ ph[c.port] = "AddressingDevice"
       /\ dv[c.slot].allocated
       /\ dv[c.slot].port = NoPort
       /\ \A s \in Slot : dv[s].port # c.port
  /\ c.type = "ConfigureEndpoint" =>
       /\ c.slot \in Slot
       /\ ph[c.port] = "ConfiguringEndpoints"
       /\ dv[c.slot].port = c.port

(* What an event that the driver has not handled says.                     *)
Posted(e, ph, dv) ==
  /\ e.type = "PortStatusChange" => e.port \in Port
  /\ e.type = "Transfer" => e.slot \in Slot /\ dv[e.slot].port \in Port
  /\ e.type \in Commands => e.slot \in Slot /\ e.port \in Port
  /\ e.type = "EnableSlot" => ph[e.port] = "EnablingSlot" /\ ~dv[e.slot].allocated
  /\ e.type = "AddressDevice" =>
       /\ ph[e.port] = "AddressingDevice"
       /\ dv[e.slot].allocated
       /\ dv[e.slot].port \in {NoPort, e.port}
  /\ e.type = "ConfigureEndpoint" =>
       /\ ph[e.port] = "ConfiguringEndpoints"
       /\ dv[e.slot].port = e.port

PhasesOK(ph, ap) ==
  /\ ph \in [Port -> ConfigPhase]
  /\ ap \in Port \cup {NoPort}
  /\ \A p \in Port : ph[p] \in Addressing <=> p = ap

SlotsOK(ph, dv) ==
  /\ dv \in [Slot -> Device]
  /\ \A s \in Slot : ~dv[s].allocated => dv[s] = NoDevice
  /\ \A s \in Slot : dv[s].transfer => dv[s].port \in Port
  /\ \A s \in Slot : dv[s].port # NoPort => ph[dv[s].port] \in Past \cup {"AddressingDevice"}
  /\ \A s, t \in Slot : dv[s].port # NoPort /\ dv[s].port = dv[t].port => s = t
  /\ \A p \in Port : ph[p] \in Past => \E s \in Slot : dv[s].allocated /\ dv[s].port = p

(* No command of port p is under way.                                      *)
NoCommandFor(p, C, E) ==
  /\ \A i \in DOMAIN C : C[i].port # p
  /\ \A j \in DOMAIN E : E[j].type \in Commands => E[j].port # p

Unique(C, E) ==
  /\ \A i, j \in DOMAIN C : C[i].port = C[j].port => i = j
  /\ \A i, j \in DOMAIN E :
       E[i].type \in Commands /\ E[j].type \in Commands /\ E[i].port = E[j].port => i = j
  /\ \A i \in DOMAIN C, j \in DOMAIN E : E[j].type \in Commands => C[i].port # E[j].port

QueuesOK(ph, dv, C, E) ==
  /\ C \in Seq(CommandTRB)
  /\ E \in Seq(EventTRB)
  /\ \A i \in DOMAIN C : Unexecuted(C[i], ph, dv)
  /\ \A i \in DOMAIN E : Posted(E[i], ph, dv)
  /\ Unique(C, E)

Good(ph, ap, dv, C, E) == PhasesOK(ph, ap) /\ SlotsOK(ph, dv) /\ QueuesOK(ph, dv, C, E)

IInv ==
  /\ boot \in 1 .. NumPorts + 1
  /\ portsc \in [Port -> PortBits]
  /\ Good(port_config_phase, addressing_port, devices, commands, events)
-----------------------------------------------------------------------------
(* Sequences, entry by entry.                                              *)

LEMMA AppendEntries ==
  ASSUME NEW S, NEW q \in Seq(S), NEW x \in S
  PROVE  /\ Append(q, x) \in Seq(S)
         /\ DOMAIN q = 1 .. Len(q) /\ Len(q) \in Nat
         /\ DOMAIN Append(q, x) = 1 .. Len(q) + 1
         /\ \A i \in DOMAIN q : Append(q, x)[i] = q[i]
         /\ Append(q, x)[Len(q) + 1] = x
OBVIOUS

LEMMA TailEntries ==
  ASSUME NEW S, NEW q \in Seq(S), q # <<>>
  PROVE  /\ Tail(q) \in Seq(S)
         /\ Head(q) \in S /\ Head(q) = q[1]
         /\ DOMAIN q = 1 .. Len(q) /\ Len(q) \in Nat \ {0}
         /\ DOMAIN Tail(q) = 1 .. Len(q) - 1
         /\ \A i \in DOMAIN Tail(q) : Tail(q)[i] = q[i + 1]
OBVIOUS
-----------------------------------------------------------------------------
(* One change at a time.                                                   *)

(* Only ports in three phases have a command under way.                    *)
LEMMA IdlePhase ==
  ASSUME NEW ph, NEW ap, NEW dv, NEW C, NEW E, Good(ph, ap, dv, C, E),
         NEW p \in Port,
         ph[p] \notin {"EnablingSlot", "AddressingDevice", "ConfiguringEndpoints"}
  PROVE  NoCommandFor(p, C, E)
<1>1. ASSUME NEW i \in DOMAIN C PROVE C[i].port # p
  <2>1. C[i] \in CommandTRB /\ Unexecuted(C[i], ph, dv)
    BY DEF Good, QueuesOK
  <2>2. C[i].type \in Commands BY <2>1 DEF CommandTRB
  <2> QED BY <2>1, <2>2 DEF Unexecuted, Commands
<1>2. ASSUME NEW j \in DOMAIN E, E[j].type \in Commands PROVE E[j].port # p
  <2>1. Posted(E[j], ph, dv) BY DEF Good, QueuesOK
  <2> QED BY <1>2, <2>1 DEF Posted, Commands
<1> QED BY <1>1, <1>2 DEF NoCommandFor

(* An event is posted: not a second one for a port.                        *)
LEMMA PostEvent ==
  ASSUME NEW ph, NEW ap, NEW dv, NEW C, NEW E, Good(ph, ap, dv, C, E),
         NEW e \in EventTRB, Posted(e, ph, dv),
         e.type \in Commands => NoCommandFor(e.port, C, E)
  PROVE  Good(ph, ap, dv, C, Append(E, e))
<1>1. E \in Seq(EventTRB) BY DEF Good, QueuesOK
<1>2. PICK q : q = Append(E, e) OBVIOUS
<1>3. /\ q \in Seq(EventTRB)
      /\ DOMAIN E = 1 .. Len(E) /\ Len(E) \in Nat
      /\ DOMAIN q = 1 .. Len(E) + 1
      /\ \A i \in DOMAIN E : q[i] = E[i]
      /\ q[Len(E) + 1] = e
  BY <1>1, <1>2, AppendEntries
<1>4. \A i \in DOMAIN q : i \in DOMAIN E \/ i = Len(E) + 1
  BY <1>3
<1>5. \A i \in DOMAIN q : Posted(q[i], ph, dv)
  BY <1>3, <1>4 DEF Good, QueuesOK
<1>6. Unique(C, q)
  <2>1. Unique(C, E) BY DEF Good, QueuesOK
  <2> QED BY <1>3, <1>4, <2>1 DEF Unique, NoCommandFor
<1> QED BY <1>2, <1>3, <1>5, <1>6 DEF Good, QueuesOK

LEMMA PushCommand ==
  ASSUME NEW ph, NEW ap, NEW dv, NEW C, NEW E, Good(ph, ap, dv, C, E),
         NEW c \in CommandTRB, Unexecuted(c, ph, dv), NoCommandFor(c.port, C, E)
  PROVE  Good(ph, ap, dv, Append(C, c), E)
<1>1. C \in Seq(CommandTRB) BY DEF Good, QueuesOK
<1>2. PICK q : q = Append(C, c) OBVIOUS
<1>3. /\ q \in Seq(CommandTRB)
      /\ DOMAIN C = 1 .. Len(C) /\ Len(C) \in Nat
      /\ DOMAIN q = 1 .. Len(C) + 1
      /\ \A i \in DOMAIN C : q[i] = C[i]
      /\ q[Len(C) + 1] = c
  BY <1>1, <1>2, AppendEntries
<1>4. \A i \in DOMAIN q : i \in DOMAIN C \/ i = Len(C) + 1
  BY <1>3
<1>5. \A i \in DOMAIN q : Unexecuted(q[i], ph, dv)
  BY <1>3, <1>4 DEF Good, QueuesOK
<1>6. Unique(q, E)
  <2>1. Unique(C, E) BY DEF Good, QueuesOK
  <2> QED BY <1>3, <1>4, <2>1 DEF Unique, NoCommandFor
<1> QED BY <1>2, <1>3, <1>5, <1>6 DEF Good, QueuesOK

(* The first event is taken off the ring, and its port has no command.     *)
LEMMA PopEvent ==
  ASSUME NEW ph, NEW ap, NEW dv, NEW C, NEW E, Good(ph, ap, dv, C, E), E # <<>>
  PROVE  /\ Good(ph, ap, dv, C, Tail(E))
         /\ Head(E) \in EventTRB
         /\ Posted(Head(E), ph, dv)
         /\ Head(E).type \in Commands => NoCommandFor(Head(E).port, C, Tail(E))
<1>1. E \in Seq(EventTRB) BY DEF Good, QueuesOK
<1>2. PICK q : q = Tail(E) OBVIOUS
<1>3. PICK e : e = Head(E) OBVIOUS
<1>4. /\ q \in Seq(EventTRB) /\ e \in EventTRB /\ e = E[1]
      /\ DOMAIN E = 1 .. Len(E) /\ Len(E) \in Nat \ {0}
      /\ DOMAIN q = 1 .. Len(E) - 1
      /\ \A i \in DOMAIN q : q[i] = E[i + 1]
  BY <1>1, <1>2, <1>3, TailEntries
<1>5. 1 \in DOMAIN E /\ \A i \in DOMAIN q : i + 1 \in DOMAIN E /\ i + 1 # 1
  BY <1>4
<1>6. Posted(e, ph, dv) /\ \A i \in DOMAIN q : Posted(q[i], ph, dv)
  BY <1>4, <1>5 DEF Good, QueuesOK
<1>7. Unique(C, E) BY DEF Good, QueuesOK
<1>8. Unique(C, q)
  BY <1>4, <1>5, <1>7 DEF Unique
<1>9. e.type \in Commands => NoCommandFor(e.port, C, q)
  BY <1>4, <1>5, <1>7 DEF Unique, NoCommandFor
<1> QED BY <1>2, <1>3, <1>4, <1>6, <1>8, <1>9 DEF Good, QueuesOK

LEMMA PopCommand ==
  ASSUME NEW ph, NEW ap, NEW dv, NEW C, NEW E, Good(ph, ap, dv, C, E), C # <<>>
  PROVE  /\ Good(ph, ap, dv, Tail(C), E)
         /\ Head(C) \in CommandTRB
         /\ Unexecuted(Head(C), ph, dv)
         /\ NoCommandFor(Head(C).port, Tail(C), E)
<1>1. C \in Seq(CommandTRB) BY DEF Good, QueuesOK
<1>2. PICK q : q = Tail(C) OBVIOUS
<1>3. PICK c : c = Head(C) OBVIOUS
<1>4. /\ q \in Seq(CommandTRB) /\ c \in CommandTRB /\ c = C[1]
      /\ DOMAIN C = 1 .. Len(C) /\ Len(C) \in Nat \ {0}
      /\ DOMAIN q = 1 .. Len(C) - 1
      /\ \A i \in DOMAIN q : q[i] = C[i + 1]
  BY <1>1, <1>2, <1>3, TailEntries
<1>5. 1 \in DOMAIN C /\ \A i \in DOMAIN q : i + 1 \in DOMAIN C /\ i + 1 # 1
  BY <1>4
<1>6. Unexecuted(c, ph, dv) /\ \A i \in DOMAIN q : Unexecuted(q[i], ph, dv)
  BY <1>4, <1>5 DEF Good, QueuesOK
<1>7. Unique(C, E) BY DEF Good, QueuesOK
<1>8. Unique(q, E)
  BY <1>4, <1>5, <1>7 DEF Unique
<1>9. NoCommandFor(c.port, q, E)
  BY <1>4, <1>5, <1>7 DEF Unique, NoCommandFor
<1> QED BY <1>2, <1>3, <1>4, <1>6, <1>8, <1>9 DEF Good, QueuesOK

(* A port that has no command under way changes its phase.                 *)
LEMMA MovePhase ==
  ASSUME NEW ph, NEW ap, NEW dv, NEW C, NEW E, Good(ph, ap, dv, C, E),
         NEW p \in Port, NoCommandFor(p, C, E),
         NEW phase \in ConfigPhase, NEW ap2 \in Port \cup {NoPort},
         ap2 \in {ap, p} \/ (ap2 = NoPort /\ ap = p),
         ap # NoPort /\ ap # p => ap2 = ap,
         phase \in Addressing <=> ap2 = p,
         \A s \in Slot : dv[s].port = p => phase \in Past \cup {"AddressingDevice"},
         phase \in Past => \E s \in Slot : dv[s].allocated /\ dv[s].port = p
  PROVE  Good([ph EXCEPT ![p] = phase], ap2, dv, C, E)
<1>1. PICK h : h = [ph EXCEPT ![p] = phase] OBVIOUS
<1>2. ph \in [Port -> ConfigPhase] BY DEF Good, PhasesOK
<1>3. h \in [Port -> ConfigPhase] /\ h[p] = phase /\ \A q \in Port : q # p => h[q] = ph[q]
  BY <1>1, <1>2
<1>4. PhasesOK(h, ap2)
  BY <1>3 DEF Good, PhasesOK, NoPort, Port
<1>5. SlotsOK(h, dv)
  BY <1>3 DEF Good, SlotsOK, Device
<1>6. \A i \in DOMAIN C : Unexecuted(C[i], h, dv)
  <2> SUFFICES ASSUME NEW i \in DOMAIN C PROVE Unexecuted(C[i], h, dv)
    OBVIOUS
  <2>1. C[i] \in CommandTRB /\ Unexecuted(C[i], ph, dv) /\ C[i].port # p
    BY DEF Good, QueuesOK, NoCommandFor
  <2>2. h[C[i].port] = ph[C[i].port]
    BY <1>3, <2>1 DEF CommandTRB
  <2> QED BY <2>1, <2>2 DEF Unexecuted
<1>7. \A i \in DOMAIN E : Posted(E[i], h, dv)
  <2> SUFFICES ASSUME NEW i \in DOMAIN E PROVE Posted(E[i], h, dv)
    OBVIOUS
  <2>1. Posted(E[i], ph, dv) /\ (E[i].type \in Commands => E[i].port # p)
    BY DEF Good, QueuesOK, NoCommandFor
  <2>2. E[i].type \in Commands => h[E[i].port] = ph[E[i].port]
    BY <1>3, <2>1 DEF Posted
  <2> QED BY <2>1, <2>2 DEF Posted, Commands
<1> QED BY <1>1, <1>4, <1>5, <1>6, <1>7 DEF Good, QueuesOK

(* A device goes on with its initialisation.                               *)
LEMMA MoveDevice ==
  ASSUME NEW ph, NEW ap, NEW dv, NEW C, NEW E, Good(ph, ap, dv, C, E),
         NEW s \in Slot, dv[s].port \in Port,
         NEW dev \in Device, dev.allocated = dv[s].allocated, dev.port = dv[s].port
  PROVE  Good(ph, ap, [dv EXCEPT ![s] = dev], C, E)
<1>1. PICK d : d = [dv EXCEPT ![s] = dev] OBVIOUS
<1>2. dv \in [Slot -> Device] BY DEF Good, SlotsOK
<1>3. /\ d \in [Slot -> Device] /\ d[s] = dev
      /\ \A t \in Slot : t # s => d[t] = dv[t]
      /\ \A t \in Slot : d[t].allocated = dv[t].allocated /\ d[t].port = dv[t].port
  BY <1>1, <1>2
<1>4. dv[s].allocated
  BY DEF Good, SlotsOK, NoDevice, NoPort, Port
<1>5. SlotsOK(ph, d)
  BY <1>3, <1>4 DEF Good, SlotsOK
<1>6. \A i \in DOMAIN C : Unexecuted(C[i], ph, d)
  BY <1>3 DEF Good, QueuesOK, Unexecuted
<1>7. \A i \in DOMAIN E : Posted(E[i], ph, d)
  <2> SUFFICES ASSUME NEW i \in DOMAIN E PROVE Posted(E[i], ph, d)
    OBVIOUS
  <2>1. Posted(E[i], ph, dv) BY DEF Good, QueuesOK
  <2> QED BY <1>3, <2>1 DEF Posted, Commands
<1> QED BY <1>1, <1>5, <1>6, <1>7 DEF Good, QueuesOK

(* A slot that was free gets its Device, for the port that is addressed.   *)
LEMMA AllocDevice ==
  ASSUME NEW ph, NEW ap, NEW dv, NEW C, NEW E, Good(ph, ap, dv, C, E),
         NEW p \in Port, p = ap, NoCommandFor(p, C, E),
         NEW s \in Slot, ~dv[s].allocated
  PROVE  Good(ph, ap, [dv EXCEPT ![s] = NewDevice], C, E)
<1>1. PICK d : d = [dv EXCEPT ![s] = NewDevice] OBVIOUS
<1>2. dv \in [Slot -> Device] /\ dv[s] = NoDevice BY DEF Good, SlotsOK
<1>3. dv[s].port = NoPort BY <1>2 DEF NoDevice
<1>4. /\ NewDevice \in Device /\ NewDevice.allocated /\ NewDevice.port = NoPort
      /\ ~NewDevice.transfer
  <2>1. NoDevice \in Device /\ NoDevice.port = NoPort /\ ~NoDevice.transfer
    BY DEF NoDevice, Device
  <2> QED BY <2>1 DEF NewDevice, Device
<1>5. /\ d \in [Slot -> Device] /\ d[s] = NewDevice
      /\ \A t \in Slot : t # s => d[t] = dv[t]
      /\ \A t \in Slot : d[t].port = dv[t].port
  BY <1>1, <1>2, <1>3, <1>4
<1>6. SlotsOK(ph, d)
  BY <1>3, <1>4, <1>5 DEF Good, SlotsOK
<1>7. \A i \in DOMAIN C : Unexecuted(C[i], ph, d)
  BY <1>3, <1>4, <1>5 DEF Good, QueuesOK, Unexecuted
<1>8. \A i \in DOMAIN E : Posted(E[i], ph, d)
  <2> SUFFICES ASSUME NEW i \in DOMAIN E PROVE Posted(E[i], ph, d)
    OBVIOUS
  <2>1. Posted(E[i], ph, dv) /\ (E[i].type \in Commands => E[i].port # p)
    BY DEF Good, QueuesOK, NoCommandFor
  <2>2. E[i].type # "EnableSlot"
    <3> SUFFICES ASSUME E[i].type = "EnableSlot" PROVE FALSE
      OBVIOUS
    <3>1. E[i].port \in Port /\ ph[E[i].port] \in Addressing
      BY <2>1 DEF Posted, Commands, Addressing
    <3> QED BY <2>1, <3>1 DEF Good, PhasesOK, Commands
  <2> QED BY <1>3, <1>4, <1>5, <2>1, <2>2 DEF Posted, Commands, Port, NoPort
<1> QED BY <1>1, <1>6, <1>7, <1>8 DEF Good, QueuesOK

(* The controller gives the slot of an Address Device command its port.    *)
LEMMA GivePort ==
  ASSUME NEW ph, NEW ap, NEW dv, NEW C, NEW E, Good(ph, ap, dv, C, E),
         NEW p \in Port, NoCommandFor(p, C, E), ph[p] = "AddressingDevice",
         NEW s \in Slot, dv[s].allocated, dv[s].port = NoPort,
         \A t \in Slot : dv[t].port # p
  PROVE  Good(ph, ap, [dv EXCEPT ![s].port = p], C, E)
<1>1. PICK d : d = [dv EXCEPT ![s].port = p] OBVIOUS
<1>2. dv \in [Slot -> Device] BY DEF Good, SlotsOK
<1>3. /\ d \in [Slot -> Device] /\ d[s].port = p /\ d[s].allocated
      /\ \A t \in Slot : t # s => d[t] = dv[t]
      /\ d[s].transfer = dv[s].transfer
  BY <1>1, <1>2 DEF Device
<1>4. SlotsOK(ph, d)
  <2>1. \A t \in Slot : ~d[t].allocated => d[t] = NoDevice
    BY <1>3 DEF Good, SlotsOK
  <2>2. \A t \in Slot : d[t].transfer => d[t].port \in Port
    BY <1>3 DEF Good, SlotsOK
  <2>3. \A t \in Slot : d[t].port # NoPort => ph[d[t].port] \in Past \cup {"AddressingDevice"}
    BY <1>3 DEF Good, SlotsOK
  <2>4. \A t, u \in Slot : d[t].port # NoPort /\ d[t].port = d[u].port => t = u
    BY <1>3 DEF Good, SlotsOK
  <2>5. \A q \in Port : ph[q] \in Past => \E t \in Slot : d[t].allocated /\ d[t].port = q
    BY <1>3 DEF Good, SlotsOK, Past, NoPort, Port
  <2> QED BY <1>3, <2>1, <2>2, <2>3, <2>4, <2>5 DEF SlotsOK
<1>5. \A q \in Port : ph[q] \in Addressing => q = p
  BY DEF Good, PhasesOK, Addressing
<1>6. \A i \in DOMAIN C : Unexecuted(C[i], ph, d)
  <2> SUFFICES ASSUME NEW i \in DOMAIN C PROVE Unexecuted(C[i], ph, d)
    OBVIOUS
  <2>1. C[i] \in CommandTRB /\ Unexecuted(C[i], ph, dv) /\ C[i].port # p
    BY DEF Good, QueuesOK, NoCommandFor
  <2>2. C[i].type # "AddressDevice"
    BY <1>5, <2>1 DEF Unexecuted, Addressing, CommandTRB
  <2> QED BY <1>3, <2>1, <2>2 DEF Unexecuted, CommandTRB, Port, NoPort
<1>7. \A i \in DOMAIN E : Posted(E[i], ph, d)
  <2> SUFFICES ASSUME NEW i \in DOMAIN E PROVE Posted(E[i], ph, d)
    OBVIOUS
  <2>1. Posted(E[i], ph, dv) /\ (E[i].type \in Commands => E[i].port # p)
    BY DEF Good, QueuesOK, NoCommandFor
  <2>2. E[i].type # "AddressDevice"
    BY <1>5, <2>1 DEF Posted, Addressing, Commands
  <2> QED BY <1>3, <2>1, <2>2 DEF Posted, Commands, Port, NoPort
<1> QED BY <1>1, <1>4, <1>6, <1>7 DEF Good, QueuesOK
-----------------------------------------------------------------------------
(* The operations.  `ring` is the event ring without the event at hand.    *)

(* What a port that is neither addressed nor past it lacks.                *)
LEMMA FreshPort ==
  ASSUME NEW ph, NEW ap, NEW dv, NEW C, NEW E, Good(ph, ap, dv, C, E),
         NEW p \in Port, ph[p] \notin Past \cup {"AddressingDevice"}
  PROVE  \A s \in Slot : dv[s].port # p
BY DEF Good, SlotsOK, Port, NoPort

LEMMA PostStatusChange ==
  ASSUME NEW ph, NEW ap, NEW dv, NEW C, NEW E, Good(ph, ap, dv, C, E), NEW p \in Port
  PROVE  Good(ph, ap, dv, C, Append(E, PortStatusChange(p)))
<1>1. PICK e : e = PortStatusChange(p) OBVIOUS
<1>2. e.type = "PortStatusChange" /\ e.port = p /\ e \in EventTRB
  BY <1>1 DEF PortStatusChange, Command, EventTRB
<1>3. Posted(e, ph, dv) /\ e.type \notin Commands
  BY <1>2 DEF Posted, Commands
<1> QED BY <1>1, <1>2, <1>3, PostEvent

(* A port that waits, or has not been seen, starts the sequence.           *)
LEMMA StartReset ==
  ASSUME NEW ph, NEW dv, NEW C, NEW E, Good(ph, NoPort, dv, C, E),
         NEW p \in Port, ph[p] \in {"NotConnected", "WaitingAddressed"}
  PROVE  Good([ph EXCEPT ![p] = "ResettingPort"], p, dv, C, Append(E, PortStatusChange(p)))
<1>1. NoCommandFor(p, C, E) BY IdlePhase
<1>2. \A s \in Slot : dv[s].port # p BY FreshPort DEF Past
<1>3. /\ "ResettingPort" \in ConfigPhase /\ "ResettingPort" \in Addressing
      /\ "ResettingPort" \notin Past /\ NoPort # p /\ p \in Port \cup {NoPort}
      /\ NoPort \in Port \cup {NoPort}
  BY DEF ConfigPhase, Addressing, Past, Port, NoPort
<1>4. Good([ph EXCEPT ![p] = "ResettingPort"], p, dv, C, E)
  BY <1>1, <1>2, <1>3, MovePhase
<1> QED BY <1>4, PostStatusChange

LEMMA ResetTypes ==
  ASSUME portsc \in [Port -> PortBits], NEW ps, NEW ring, Reset(ps, ring)
  PROVE  portsc' \in [Port -> PortBits]
BY DEF Reset, PortBits

LEMMA ResetPortSafe ==
  ASSUME IInv, NEW ring, Good(port_config_phase, addressing_port, devices, commands, ring),
         NEW p \in Port, port_config_phase[p] = "NotConnected",
         ResetPort(p, ring), UNCHANGED <<devices, commands>>, boot' \in 1 .. NumPorts + 1
  PROVE  IInv'
<1>1. portsc' \in [Port -> PortBits]
  BY ResetTypes DEF IInv, ResetPort
<1>2. CASE ~portsc[p].connected
  BY <1>1, <1>2 DEF ResetPort, Reset, IInv
<1>3. CASE portsc[p].connected /\ addressing_port = NoPort
  <2>1. /\ port_config_phase' = [port_config_phase EXCEPT ![p] = "ResettingPort"]
        /\ addressing_port' = p
        /\ Reset({p}, ring)
    BY <1>3 DEF ResetPort
  <2>2. events' = Append(ring, PortStatusChange(p))
    BY <2>1 DEF Reset
  <2>3. Good([port_config_phase EXCEPT ![p] = "ResettingPort"], p, devices, commands,
             Append(ring, PortStatusChange(p)))
    BY <1>3, StartReset
  <2> QED BY <1>1, <2>1, <2>2, <2>3 DEF IInv
<1>4. CASE portsc[p].connected /\ addressing_port # NoPort
  <2>1. /\ port_config_phase' = [port_config_phase EXCEPT ![p] = "WaitingAddressed"]
        /\ addressing_port' = addressing_port
        /\ events' = ring
    BY <1>4 DEF ResetPort, Reset
  <2>2. NoCommandFor(p, commands, ring) BY IdlePhase
  <2>3. \A s \in Slot : devices[s].port # p BY FreshPort DEF Past
  <2>4. addressing_port # p /\ addressing_port \in Port \cup {NoPort}
    BY DEF Good, PhasesOK, Addressing
  <2>5. "WaitingAddressed" \in ConfigPhase /\ "WaitingAddressed" \notin Addressing
        /\ "WaitingAddressed" \notin Past
    BY DEF ConfigPhase, Addressing, Past
  <2>6. Good([port_config_phase EXCEPT ![p] = "WaitingAddressed"], addressing_port, devices,
             commands, ring)
    BY <2>2, <2>3, <2>4, <2>5, MovePhase
  <2> QED BY <1>1, <2>1, <2>6 DEF IInv
<1> QED BY <1>2, <1>3, <1>4

LEMMA IgnoreSafe ==
  ASSUME IInv, NEW ring, Good(port_config_phase, addressing_port, devices, commands, ring),
         Ignore(ring), boot' \in 1 .. NumPorts + 1
  PROVE  IInv'
BY DEF Ignore, IInv

LEMMA EnableSlotSafe ==
  ASSUME IInv, NEW ring, Good(port_config_phase, addressing_port, devices, commands, ring),
         NEW p \in Port, port_config_phase[p] = "ResettingPort",
         EnableSlot(p, ring), boot' \in 1 .. NumPorts + 1
  PROVE  IInv'
<1>1. CASE ~(portsc[p].enabled /\ portsc[p].prc)
  BY <1>1, IgnoreSafe DEF EnableSlot
<1>2. CASE portsc[p].enabled /\ portsc[p].prc
  <2>1. PICK c : c = Command("EnableSlot", 0, p) OBVIOUS
  <2>2. PICK h : h = [port_config_phase EXCEPT ![p] = "EnablingSlot"] OBVIOUS
  <2>3. /\ portsc' = [portsc EXCEPT ![p].prc = FALSE]
        /\ port_config_phase' = h /\ commands' = Append(commands, c) /\ events' = ring
        /\ addressing_port' = addressing_port /\ devices' = devices
    BY <1>2, <2>1, <2>2 DEF EnableSlot
  <2>4. NoCommandFor(p, commands, ring) BY IdlePhase
  <2>5. \A s \in Slot : devices[s].port # p BY FreshPort DEF Past
  <2>6. addressing_port = p /\ addressing_port \in Port \cup {NoPort}
    BY DEF Good, PhasesOK, Addressing
  <2>7. "EnablingSlot" \in ConfigPhase /\ "EnablingSlot" \in Addressing /\ "EnablingSlot" \notin Past
    BY DEF ConfigPhase, Addressing, Past
  <2>8. Good(h, addressing_port, devices, commands, ring)
    BY <2>2, <2>4, <2>5, <2>6, <2>7, MovePhase
  <2>9. h[p] = "EnablingSlot"
    BY <2>2 DEF Good, PhasesOK
  <2>10. c \in CommandTRB /\ c.port = p /\ c.type = "EnableSlot"
    BY <2>1 DEF Command, CommandTRB, Commands
  <2>11. Unexecuted(c, h, devices)
    BY <2>9, <2>10 DEF Unexecuted
  <2>12. Good(h, addressing_port, devices, Append(commands, c), ring)
    BY <2>4, <2>8, <2>10, <2>11, PushCommand
  <2>13. portsc' \in [Port -> PortBits]
    BY <2>3 DEF IInv, PortBits
  <2> QED BY <2>3, <2>12, <2>13 DEF IInv
<1> QED BY <1>1, <1>2

LEMMA AddressDeviceSafe ==
  ASSUME IInv, NEW ring, Good(port_config_phase, addressing_port, devices, commands, ring),
         NEW e \in EventTRB, e.type = "EnableSlot", Posted(e, port_config_phase, devices),
         NoCommandFor(e.port, commands, ring),
         AddressDevice(e.slot, ring), boot' \in 1 .. NumPorts + 1
  PROVE  IInv'
<1>1. CASE ~(addressing_port # NoPort /\ port_config_phase[addressing_port] = "EnablingSlot")
  BY <1>1, IgnoreSafe DEF AddressDevice
<1>2. CASE addressing_port # NoPort /\ port_config_phase[addressing_port] = "EnablingSlot"
  <2>1. PICK p : p = addressing_port OBVIOUS
  <2>2. PICK s : s = e.slot OBVIOUS
  <2>3. PICK c : c = Command("AddressDevice", s, p) OBVIOUS
  <2>4. PICK h : h = [port_config_phase EXCEPT ![p] = "AddressingDevice"] OBVIOUS
  <2>5. PICK d : d = [devices EXCEPT ![s] = NewDevice] OBVIOUS
  <2>6. /\ devices' = d /\ port_config_phase' = h /\ commands' = Append(commands, c)
        /\ events' = ring /\ addressing_port' = p /\ portsc' = portsc
    BY <1>2, <2>1, <2>2, <2>3, <2>4, <2>5 DEF AddressDevice
  <2>7. s \in Slot /\ e.port \in Port /\ ~devices[s].allocated
        /\ port_config_phase[e.port] = "EnablingSlot"
    BY <2>2 DEF Posted, Commands
  <2>8. p = e.port /\ p \in Port
    BY <2>1, <2>7 DEF Good, PhasesOK, Addressing
  <2>9. NoCommandFor(p, commands, ring) BY <2>8
  <2>10. \A t \in Slot : devices[t].port # p
    BY <2>7, <2>8, FreshPort DEF Past
  <2>11. /\ "AddressingDevice" \in ConfigPhase /\ "AddressingDevice" \in Addressing
         /\ "AddressingDevice" \notin Past /\ p \in Port \cup {NoPort}
    BY <2>8 DEF ConfigPhase, Addressing, Past
  <2>12. Good(h, p, devices, commands, ring)
    BY <2>1, <2>4, <2>8, <2>9, <2>10, <2>11, MovePhase
  <2>13. Good(h, p, d, commands, ring)
    BY <2>5, <2>7, <2>8, <2>9, <2>12, AllocDevice
  <2>14. h[p] = "AddressingDevice"
    BY <2>4, <2>8 DEF Good, PhasesOK
  <2>15. c \in CommandTRB /\ c.port = p /\ c.type = "AddressDevice" /\ c.slot = s
    BY <2>3, <2>7, <2>8 DEF Command, CommandTRB, Commands
  <2>16. NewDevice.allocated /\ NewDevice.port = NoPort
    <3>1. NoDevice \in Device /\ NoDevice.port = NoPort BY DEF NoDevice, Device
    <3> QED BY <3>1 DEF NewDevice, Device
  <2>17. d[s] = NewDevice /\ \A t \in Slot : t # s => d[t] = devices[t]
    BY <2>5, <2>7 DEF Good, SlotsOK
  <2>18. Unexecuted(c, h, d)
    <3>1. \A t \in Slot : d[t].port # p
      BY <2>8, <2>10, <2>16, <2>17 DEF Port, NoPort
    <3> QED BY <2>7, <2>14, <2>15, <2>16, <2>17, <3>1 DEF Unexecuted
  <2>19. Good(h, p, d, Append(commands, c), ring)
    BY <2>9, <2>13, <2>15, <2>18, PushCommand
  <2> QED BY <2>6, <2>19 DEF IInv
<1> QED BY <1>1, <1>2

(* The first port that waits is one port.                                  *)
LEMMA NextIsOne ==
  ASSUME NEW p \in NextToReset
  PROVE  NextToReset = {p} /\ p \in Port /\ port_config_phase[p] = "WaitingAddressed"
<1>1. ASSUME NEW q \in NextToReset, q # p PROVE FALSE
  <2>1. p \in 1 .. q - 1 \/ q \in 1 .. p - 1
    BY <1>1, NumPortsAssumption DEF NextToReset, Port
  <2> QED BY <2>1 DEF NextToReset
<1> QED BY <1>1 DEF NextToReset

LEMMA DeviceAddressedSafe ==
  ASSUME IInv, NEW ring, Good(port_config_phase, addressing_port, devices, commands, ring),
         NEW e \in EventTRB, e.type = "AddressDevice", Posted(e, port_config_phase, devices),
         NoCommandFor(e.port, commands, ring),
         OnDeviceAddressed(e.slot, ring), boot' \in 1 .. NumPorts + 1
  PROVE  IInv'
<1>1. PICK s : s = e.slot OBVIOUS
<1>2. PICK p : p = devices[s].port OBVIOUS
<1>3. CASE ~(p # NoPort /\ p = addressing_port /\ port_config_phase[p] = "AddressingDevice")
  BY <1>1, <1>2, <1>3, IgnoreSafe DEF OnDeviceAddressed
<1>4. CASE p # NoPort /\ p = addressing_port /\ port_config_phase[p] = "AddressingDevice"
  <2>1. PICK dev : dev = StartInitialize(devices[s]) OBVIOUS
  <2>2. PICK d : d = [devices EXCEPT ![s] = dev] OBVIOUS
  <2>3. PICK h : h = [port_config_phase EXCEPT ![p] = "InitializingDevice"] OBVIOUS
  <2>4. /\ addressing_port' = IF NextToReset = {} THEN NoPort
                              ELSE CHOOSE q \in NextToReset : TRUE
        /\ port_config_phase' = [q \in Port |-> IF q \in NextToReset THEN "ResettingPort"
                                                ELSE IF q = p THEN "InitializingDevice"
                                                ELSE port_config_phase[q]]
        /\ Reset(NextToReset, ring)
        /\ devices' = d /\ commands' = commands
    BY <1>1, <1>2, <1>4, <2>1, <2>2 DEF OnDeviceAddressed
  <2>5. s \in Slot /\ e.port \in Port /\ p = e.port
    BY <1>1, <1>2, <1>4 DEF Posted, Commands
  <2>6. devices \in [Slot -> Device] /\ port_config_phase \in [Port -> ConfigPhase]
    BY DEF Good, SlotsOK, PhasesOK
  <2>7. devices[s].allocated
    <3>1. devices[s] = NoDevice => devices[s].port = NoPort BY DEF NoDevice
    <3> QED BY <1>2, <1>4, <2>5, <3>1 DEF Good, SlotsOK
  <2>8. /\ "InitializingDevice" \in ConfigPhase /\ "InitializingDevice" \notin Addressing
        /\ "InitializingDevice" \in Past /\ NoPort # p /\ NoPort \in Port \cup {NoPort}
    BY <1>4 DEF ConfigPhase, Addressing, Past
  <2>9. Good(h, NoPort, devices, commands, ring)
    BY <1>2, <1>4, <2>3, <2>5, <2>7, <2>8, MovePhase
  <2>10. devices[s] \in Device BY <2>5, <2>6
  <2>11. dev \in Device /\ dev.allocated = devices[s].allocated /\ dev.port = devices[s].port
    <3>1. dev = [devices[s] EXCEPT !.init = 1, !.transfer = TRUE]
      BY <2>1 DEF StartInitialize
    <3>2. 1 \in 0 .. 4 /\ TRUE \in BOOLEAN OBVIOUS
    <3> QED BY <2>10, <3>1, <3>2 DEF Device
  <2>12. Good(h, NoPort, d, commands, ring)
    BY <1>2, <2>2, <2>5, <2>9, <2>11, MoveDevice
  <2>13. portsc' \in [Port -> PortBits]
    BY <2>4, ResetTypes DEF IInv
  <2>14. CASE NextToReset = {}
    <3>1. port_config_phase' = h
      BY <2>3, <2>4, <2>6, <2>14
    <3>2. events' = ring
      BY <2>4, <2>14 DEF Reset
    <3> QED BY <2>4, <2>12, <2>13, <2>14, <3>1, <3>2 DEF IInv
  <2>15. CASE NextToReset # {}
    <3>1. PICK q \in NextToReset : TRUE BY <2>15
    <3>2. NextToReset = {q} /\ q \in Port /\ port_config_phase[q] = "WaitingAddressed"
      BY NextIsOne
    <3>3. addressing_port' = q BY <2>4, <3>2
    <3>4. events' = Append(ring, PortStatusChange(q))
      BY <2>4, <3>2 DEF Reset
    <3>5. q # p BY <1>4, <3>2
    <3>6. h[q] = "WaitingAddressed" BY <2>3, <2>6, <3>2, <3>5
    <3>7. port_config_phase' = [h EXCEPT ![q] = "ResettingPort"]
      BY <2>3, <2>4, <2>6, <3>2, <3>5
    <3>8. Good([h EXCEPT ![q] = "ResettingPort"], q, d, commands,
               Append(ring, PortStatusChange(q)))
      BY <2>12, <3>2, <3>6, StartReset
    <3> QED BY <2>4, <2>13, <3>3, <3>4, <3>7, <3>8 DEF IInv
  <2> QED BY <2>14, <2>15
<1> QED BY <1>3, <1>4

LEMMA TransferSafe ==
  ASSUME IInv, NEW ring, Good(port_config_phase, addressing_port, devices, commands, ring),
         NEW s \in Slot, devices[s].port \in Port, NEW ok \in BOOLEAN,
         OnTransfer(s, ok, ring), boot' \in 1 .. NumPorts + 1
  PROVE  IInv'
<1>1. PICK dev : dev = OnTransferEventReceived(devices[s], ok) OBVIOUS
<1>2. PICK d : d = [devices EXCEPT ![s] = dev] OBVIOUS
<1>3. PICK p : p = devices[s].port OBVIOUS
<1>4. devices[s] \in Device BY DEF Good, SlotsOK
<1>5. dev \in Device /\ dev.allocated = devices[s].allocated /\ dev.port = p
  <2>1. CASE dev = devices[s] BY <1>3, <1>4, <2>1
  <2>2. CASE /\ devices[s].init \in 1 .. 3
             /\ dev = [devices[s] EXCEPT !.init = @ + 1, !.transfer = devices[s].init < 3]
    <3>1. devices[s].init + 1 \in 0 .. 4 /\ (devices[s].init < 3) \in BOOLEAN
      BY <2>2
    <3> QED BY <1>3, <1>4, <2>2, <3>1 DEF Device
  <2> QED BY <1>1, <2>1, <2>2 DEF OnTransferEventReceived, OnControlCompleted
<1>6. Good(port_config_phase, addressing_port, d, commands, ring)
  BY <1>2, <1>3, <1>5, MoveDevice
<1>7. /\ devices' = d /\ events' = ring /\ addressing_port' = addressing_port
      /\ portsc' = portsc
      /\ \/ UNCHANGED <<port_config_phase, commands>>
         \/ port_config_phase[p] = "InitializingDevice" /\ ConfigureEndpoints(s, p)
  BY <1>1, <1>2, <1>5 DEF OnTransfer
<1>8. CASE UNCHANGED <<port_config_phase, commands>>
  BY <1>6, <1>7, <1>8 DEF IInv
<1>9. CASE port_config_phase[p] = "InitializingDevice" /\ ConfigureEndpoints(s, p)
                                                       /\ portsc[p].connected
  <2>1. PICK c : c = Command("ConfigureEndpoint", s, p) OBVIOUS
  <2>2. PICK h : h = [port_config_phase EXCEPT ![p] = "ConfiguringEndpoints"] OBVIOUS
  <2>3. port_config_phase' = h /\ commands' = Append(commands, c)
    BY <1>9, <2>1, <2>2 DEF ConfigureEndpoints
  <2>4. p \in Port /\ NoCommandFor(p, commands, ring)
    BY <1>3, <1>9, IdlePhase
  <2>5. p # addressing_port /\ addressing_port \in Port \cup {NoPort}
    BY <1>9, <2>4 DEF Good, PhasesOK, Addressing
  <2>6. /\ "ConfiguringEndpoints" \in ConfigPhase /\ "ConfiguringEndpoints" \notin Addressing
        /\ "ConfiguringEndpoints" \in Past
    BY DEF ConfigPhase, Addressing, Past
  <2>7. d[s] = dev /\ d[s].port = p
    BY <1>2, <1>5 DEF Good, SlotsOK
  <2>8. d[s].allocated
    BY <1>6, <2>4, <2>7 DEF Good, SlotsOK, NoDevice, Port, NoPort
  <2>9. Good(h, addressing_port, d, commands, ring)
    BY <1>6, <2>2, <2>4, <2>5, <2>6, <2>7, <2>8, MovePhase
  <2>10. h[p] = "ConfiguringEndpoints"
    BY <2>2, <2>4 DEF Good, PhasesOK
  <2>11. c \in CommandTRB /\ c.port = p /\ c.type = "ConfigureEndpoint" /\ c.slot = s
    BY <2>1, <2>4 DEF Command, CommandTRB, Commands
  <2>12. Unexecuted(c, h, d)
    BY <2>7, <2>10, <2>11 DEF Unexecuted
  <2>13. Good(h, addressing_port, d, Append(commands, c), ring)
    BY <2>4, <2>9, <2>11, <2>12, PushCommand
  <2> QED BY <1>7, <2>3, <2>13 DEF IInv
<1>10. CASE ConfigureEndpoints(s, p) /\ ~portsc[p].connected
  BY <1>6, <1>7, <1>10 DEF ConfigureEndpoints, IInv
<1> QED BY <1>7, <1>8, <1>9, <1>10

LEMMA EndpointsConfiguredSafe ==
  ASSUME IInv, NEW ring, Good(port_config_phase, addressing_port, devices, commands, ring),
         NEW e \in EventTRB, e.type = "ConfigureEndpoint",
         Posted(e, port_config_phase, devices), NoCommandFor(e.port, commands, ring),
         OnEndpointsConfigured(e.slot, ring), boot' \in 1 .. NumPorts + 1
  PROVE  IInv'
<1>1. PICK p : p = e.port OBVIOUS
<1>2. /\ p \in Port /\ e.slot \in Slot /\ devices[e.slot].port = p
      /\ port_config_phase[p] = "ConfiguringEndpoints"
  BY <1>1 DEF Posted, Commands
<1>3. /\ port_config_phase' = [port_config_phase EXCEPT ![p] = "Configured"]
      /\ events' = ring /\ UNCHANGED <<addressing_port, devices, portsc, commands>>
  BY <1>2 DEF OnEndpointsConfigured
<1>4. /\ "Configured" \in ConfigPhase /\ "Configured" \notin Addressing /\ "Configured" \in Past
  BY DEF ConfigPhase, Addressing, Past
<1>5. p # addressing_port /\ addressing_port \in Port \cup {NoPort}
  BY <1>2 DEF Good, PhasesOK, Addressing
<1>6. devices[e.slot].allocated
  BY <1>2 DEF Good, SlotsOK, NoDevice, Port, NoPort
<1>7. Good([port_config_phase EXCEPT ![p] = "Configured"], addressing_port, devices, commands, ring)
  BY <1>1, <1>2, <1>4, <1>5, <1>6, MovePhase
<1> QED BY <1>3, <1>7 DEF IInv
-----------------------------------------------------------------------------
(* The controller and the devices.                                         *)

LEMMA SetPortSafe ==
  ASSUME IInv, NEW p \in Port, NEW bits \in PortBits, SetPort(p, bits)
  PROVE  IInv'
<1>1. portsc' \in [Port -> PortBits]
  BY DEF SetPort, IInv
<1>2. events' = events \/ events' = Append(events, PortStatusChange(p))
  BY DEF SetPort
<1>3. Good(port_config_phase, addressing_port, devices, commands, events')
  BY <1>2, PostStatusChange DEF IInv
<1> QED BY <1>1, <1>3 DEF SetPort, IInv

LEMMA PlugSafe ==
  ASSUME IInv, NEW p \in Port, Plug(p) \/ Unplug(p)
  PROVE  IInv'
<1>1. portsc[p] \in PortBits BY DEF IInv
<1>2. /\ [portsc[p] EXCEPT !.connected = TRUE, !.csc = TRUE] \in PortBits
      /\ [portsc[p] EXCEPT !.connected = FALSE, !.enabled = FALSE, !.csc = TRUE] \in PortBits
  BY <1>1 DEF PortBits
<1> QED BY <1>2, SetPortSafe DEF Plug, Unplug

LEMMA ExecuteCommandSafe ==
  ASSUME IInv, ExecuteCommand
  PROVE  IInv'
<1>1. PICK c : c = Head(commands) OBVIOUS
<1>2. PICK C : C = Tail(commands) OBVIOUS
<1>3. PICK s \in Slot :
        /\ IF c.type = "EnableSlot" THEN FreeSlot(s) ELSE s = c.slot
        /\ events' = Append(events, [c EXCEPT !.slot = s])
        /\ devices' = IF c.type = "AddressDevice" /\ portsc[c.port].enabled
                      THEN [devices EXCEPT ![s].port = c.port] ELSE devices
  BY <1>1 DEF ExecuteCommand
<1>4. /\ commands # <<>> /\ commands' = C
      /\ UNCHANGED <<boot, port_config_phase, addressing_port, portsc>>
  BY <1>2 DEF ExecuteCommand
<1>5. /\ Good(port_config_phase, addressing_port, devices, C, events)
      /\ c \in CommandTRB /\ Unexecuted(c, port_config_phase, devices)
      /\ NoCommandFor(c.port, C, events)
  BY <1>1, <1>2, <1>4, PopCommand DEF IInv
<1>6. PICK e : e = [c EXCEPT !.slot = s] OBVIOUS
<1>7. e \in EventTRB /\ e.type = c.type /\ e.port = c.port /\ e.slot = s
      /\ e.type \in Commands /\ e.port \in Port
  BY <1>5, <1>6 DEF CommandTRB, EventTRB
<1>8. Good(port_config_phase, addressing_port, devices', C, events)
      /\ Posted(e, port_config_phase, devices')
  <2>1. CASE c.type = "EnableSlot"
    <3>1. devices' = devices /\ ~devices[s].allocated
      BY <1>3, <2>1 DEF FreeSlot
    <3>2. port_config_phase[c.port] = "EnablingSlot"
      BY <1>5, <2>1 DEF Unexecuted
    <3> QED BY <1>5, <1>7, <2>1, <3>1, <3>2 DEF Posted, Commands
  <2>2. CASE c.type = "AddressDevice"
    <3>1. /\ s = c.slot /\ port_config_phase[c.port] = "AddressingDevice"
          /\ devices[s].allocated /\ devices[s].port = NoPort
          /\ \A t \in Slot : devices[t].port # c.port
      BY <1>3, <1>5, <2>2 DEF Unexecuted
    <3>2. devices' = devices \/ devices' = [devices EXCEPT ![s].port = c.port]
      BY <1>3
    <3>3. Good(port_config_phase, addressing_port, devices', C, events)
      BY <1>5, <1>7, <3>1, <3>2, GivePort
    <3>4. devices[s] \in Device /\ devices \in [Slot -> Device]
      BY <1>5 DEF Good, SlotsOK
    <3>5. devices'[s].allocated /\ devices'[s].port \in {NoPort, c.port}
      BY <3>1, <3>2, <3>4 DEF Device
    <3> QED BY <1>7, <2>2, <3>1, <3>3, <3>5 DEF Posted, Commands
  <2>3. CASE c.type = "ConfigureEndpoint"
    <3>1. devices' = devices /\ s = c.slot BY <1>3, <2>3
    <3>2. port_config_phase[c.port] = "ConfiguringEndpoints" /\ devices[s].port = c.port
      BY <1>5, <2>3, <3>1 DEF Unexecuted
    <3> QED BY <1>5, <1>7, <2>3, <3>1, <3>2 DEF Posted, Commands
  <2> QED BY <1>7, <2>1, <2>2, <2>3 DEF Commands
<1>9. Good(port_config_phase, addressing_port, devices', C, Append(events, e))
  BY <1>5, <1>7, <1>8, PostEvent
<1> QED BY <1>3, <1>4, <1>6, <1>9 DEF IInv

LEMMA CompleteTransferSafe ==
  ASSUME IInv, NEW s \in Slot, CompleteTransfer(s)
  PROVE  IInv'
<1>1. PICK dev : dev = [devices[s] EXCEPT !.transfer = FALSE] OBVIOUS
<1>2. PICK d : d = [devices EXCEPT ![s] = dev] OBVIOUS
<1>3. PICK e : e = Transfer(s, portsc[devices[s].port].enabled) OBVIOUS
<1>4. Good(port_config_phase, addressing_port, devices, commands, events)
  BY DEF IInv
<1>5. devices \in [Slot -> Device] /\ devices[s] \in Device
  BY <1>4 DEF Good, SlotsOK
<1>6. devices[s].port \in Port
  BY <1>4 DEF CompleteTransfer, Good, SlotsOK
<1>7. dev \in Device /\ dev.allocated = devices[s].allocated /\ dev.port = devices[s].port
  BY <1>1, <1>5 DEF Device
<1>8. devices' = d
  BY <1>1, <1>2 DEF CompleteTransfer
<1>9. Good(port_config_phase, addressing_port, d, commands, events)
  BY <1>2, <1>4, <1>6, <1>7, MoveDevice
<1>10. e \in EventTRB /\ e.type = "Transfer" /\ e.slot = s
  BY <1>3, NumPortsAssumption DEF Transfer, Command, EventTRB, Port
<1>11. d[s] = dev BY <1>2, <1>5
<1>12. Posted(e, port_config_phase, d) /\ e.type \notin Commands
  BY <1>6, <1>7, <1>10, <1>11 DEF Posted, Commands
<1>13. Good(port_config_phase, addressing_port, d, commands, Append(events, e))
  BY <1>9, <1>10, <1>12, PostEvent
<1> QED BY <1>3, <1>8, <1>13 DEF CompleteTransfer, IInv
-----------------------------------------------------------------------------
LEMMA BootSafe ==
  ASSUME IInv, Boot
  PROVE  IInv'
<1>1. boot \in Port /\ boot' \in 1 .. NumPorts + 1
  BY NumPortsAssumption DEF Boot, Port
<1>2. Good(port_config_phase, addressing_port, devices, commands, events)
  BY DEF IInv
<1>3. CASE port_config_phase[boot] = "NotConnected"
  BY <1>1, <1>2, <1>3, ResetPortSafe DEF Boot
<1>4. CASE port_config_phase[boot] # "NotConnected"
  BY <1>1, <1>4 DEF Boot, IInv
<1> QED BY <1>3, <1>4

LEMMA ProcessEventSafe ==
  ASSUME IInv, ProcessEvent
  PROVE  IInv'
<1>1. PICK e : e = Head(events) OBVIOUS
<1>2. PICK ring : ring = Tail(events) OBVIOUS
<1>3. /\ Good(port_config_phase, addressing_port, devices, commands, ring)
      /\ e \in EventTRB /\ Posted(e, port_config_phase, devices)
      /\ e.type \in Commands => NoCommandFor(e.port, commands, ring)
  BY <1>1, <1>2, PopEvent DEF IInv, ProcessEvent
<1>4. boot' \in 1 .. NumPorts + 1
  BY DEF ProcessEvent, IInv
<1>5. CASE e.type = "PortStatusChange" /\ OnPortStatusChange(e.port, ring)
  <2>1. e.port \in Port BY <1>3, <1>5 DEF Posted
  <2>2. CASE port_config_phase[e.port] = "NotConnected"
    BY <1>3, <1>4, <1>5, <2>1, <2>2, ResetPortSafe DEF OnPortStatusChange
  <2>3. CASE port_config_phase[e.port] = "ResettingPort"
    BY <1>3, <1>4, <1>5, <2>1, <2>3, EnableSlotSafe DEF OnPortStatusChange
  <2>4. CASE port_config_phase[e.port] \notin {"NotConnected", "ResettingPort"}
    BY <1>3, <1>4, <1>5, <2>4, IgnoreSafe DEF OnPortStatusChange
  <2> QED BY <2>2, <2>3, <2>4
<1>6. CASE e.type = "EnableSlot" /\ AddressDevice(e.slot, ring)
  BY <1>3, <1>4, <1>6, AddressDeviceSafe DEF Commands
<1>7. CASE e.type = "AddressDevice" /\ OnDeviceAddressed(e.slot, ring)
  BY <1>3, <1>4, <1>7, DeviceAddressedSafe DEF Commands
<1>8. CASE e.type = "Transfer" /\ OnTransfer(e.slot, e.port = 1, ring)
  <2>1. e.slot \in Slot /\ devices[e.slot].port \in Port
    BY <1>3, <1>8 DEF Posted
  <2> QED BY <1>3, <1>4, <1>8, <2>1, TransferSafe
<1>9. CASE e.type = "ConfigureEndpoint" /\ OnEndpointsConfigured(e.slot, ring)
  BY <1>3, <1>4, <1>9, EndpointsConfiguredSafe DEF Commands
<1> QED BY <1>1, <1>2, <1>5, <1>6, <1>7, <1>8, <1>9 DEF ProcessEvent

LEMMA InitIInv == Init => IInv
<1> SUFFICES ASSUME Init PROVE IInv
  OBVIOUS
<1>1. PhasesOK(port_config_phase, addressing_port)
  BY DEF Init, PhasesOK, ConfigPhase, Addressing, Port, NoPort
<1>2. NoDevice \in Device /\ NoDevice.port = NoPort /\ ~NoDevice.transfer
  BY DEF NoDevice, Device
<1>3. SlotsOK(port_config_phase, devices)
  BY <1>2 DEF Init, SlotsOK, Past
<1>4. QueuesOK(port_config_phase, devices, commands, events)
  BY DEF Init, QueuesOK, Unique
<1>5. boot \in 1 .. NumPorts + 1 /\ portsc \in [Port -> PortBits]
  BY NumPortsAssumption DEF Init, PortBits
<1> QED BY <1>1, <1>3, <1>4, <1>5 DEF IInv, Good

LEMMA NextIInv == IInv /\ [Next]_vars => IInv'
<1> SUFFICES ASSUME IInv, [Next]_vars PROVE IInv'
  OBVIOUS
<1>1. ASSUME NEW p \in Port, Plug(p) \/ Unplug(p) PROVE IInv' BY <1>1, PlugSafe
<1>2. CASE ExecuteCommand BY <1>2, ExecuteCommandSafe
<1>3. ASSUME NEW s \in Slot, CompleteTransfer(s) PROVE IInv' BY <1>3, CompleteTransferSafe
<1>4. CASE Boot BY <1>4, BootSafe
<1>5. CASE ProcessEvent BY <1>5, ProcessEventSafe
<1>6. CASE UNCHANGED vars BY <1>6 DEF vars, IInv
<1> QED BY <1>1, <1>2, <1>3, <1>4, <1>5, <1>6 DEF Next

THEOREM Inductive == Spec => []IInv
<1>1. Init => IInv BY InitIInv
<1>2. IInv /\ [Next]_vars => IInv' BY NextIInv
<1> QED BY <1>1, <1>2, PTL DEF Spec
-----------------------------------------------------------------------------
(* The driver's variables and the rings keep their types.                  *)
THEOREM TypeCorrect == Spec => []TypeOK
<1>1. IInv => TypeOK
  BY DEF IInv, Good, PhasesOK, SlotsOK, QueuesOK, TypeOK, Device, CommandTRB, EventTRB
<1> QED BY <1>1, Inductive, PTL

(* From its reset until it is addressed a port holds addressing_port, and  *)
(* nobody else is in these phases.                                         *)
THEOREM OnePortAddressed == Spec => []OneAddressingPort
<1>1. IInv => OneAddressingPort
  BY DEF IInv, Good, PhasesOK, OneAddressingPort
<1> QED BY <1>1, Inductive, PTL

(* A slot that is enabled goes to the port it was asked for.               *)
THEOREM SlotsForTheirPorts == Spec => []SlotForItsPort
<1>1. IInv => SlotForItsPort
  <2> SUFFICES ASSUME IInv,
                      NEW c \in {commands[i] : i \in DOMAIN commands} \cup Completions("EnableSlot"),
                      c.type = "EnableSlot"
               PROVE  c.port = addressing_port /\ port_config_phase[c.port] = "EnablingSlot"
    BY DEF SlotForItsPort
  <2>1. CASE \E i \in DOMAIN commands : c = commands[i]
    <3>1. PICK i \in DOMAIN commands : c = commands[i] BY <2>1
    <3>2. commands[i] \in CommandTRB /\ Unexecuted(commands[i], port_config_phase, devices)
      BY DEF IInv, Good, QueuesOK
    <3> QED BY <3>1, <3>2 DEF Unexecuted, CommandTRB, IInv, Good, PhasesOK, Addressing
  <2>2. CASE \E i \in DOMAIN events : c = events[i]
    <3>1. PICK i \in DOMAIN events : c = events[i] BY <2>2
    <3>2. Posted(c, port_config_phase, devices)
      BY <3>1 DEF IInv, Good, QueuesOK
    <3> QED BY <3>2 DEF Posted, Commands, IInv, Good, PhasesOK, Addressing
  <2> QED BY <2>1, <2>2 DEF Completions
<1> QED BY <1>1, Inductive, PTL

(* No port has two slots, and none that is past addressing lacks one.      *)
THEOREM SlotsAreDistinct == Spec => []SlotsDistinct
<1>1. IInv => SlotsDistinct
  BY DEF IInv, Good, SlotsOK, SlotsDistinct, Past
<1> QED BY <1>1, Inductive, PTL

(* The rings hold at most one command of each port.                        *)
THEOREM OneCommandEach == Spec => []OneCommandPerPort
<1>1. IInv => OneCommandPerPort
  BY DEF IInv, Good, QueuesOK, Unique, OneCommandPerPort
<1> QED BY <1>1, Inductive, PTL

(* A phase only changes along an arrow of the diagram.                     *)
Follows ==
  \A p \in Port : port_config_phase'[p] # port_config_phase[p] =>
    <<port_config_phase[p], port_config_phase'[p]>> \in Diagram

(* A phase that changes at one port follows the diagram if this change does. *)
LEMMA OneArrow ==
  ASSUME IInv, NEW p \in Port, NEW phase,
         port_config_phase' = [port_config_phase EXCEPT ![p] = phase],
         <<port_config_phase[p], phase>> \in Diagram
  PROVE  Follows
BY DEF Follows, IInv, Good, PhasesOK

LEMMA ProcessEventFollows ==
  ASSUME IInv, ProcessEvent
  PROVE  Follows
<1>1. PICK e : e = Head(events) OBVIOUS
<1>2. PICK ring : ring = Tail(events) OBVIOUS
<1>3. e \in EventTRB /\ Posted(e, port_config_phase, devices)
  BY <1>1, PopEvent DEF IInv, ProcessEvent
<1>4. port_config_phase \in [Port -> ConfigPhase]
  BY DEF IInv, Good, PhasesOK
<1>5. port_config_phase' = port_config_phase => Follows
  BY DEF Follows
<1>6. CASE e.type = "PortStatusChange" /\ OnPortStatusChange(e.port, ring)
  <2>1. e.port \in Port BY <1>3, <1>6 DEF Posted
  <2>2. CASE port_config_phase[e.port] = "NotConnected"
    <3>1. \/ port_config_phase' = port_config_phase
          \/ port_config_phase' = [port_config_phase EXCEPT ![e.port] = "ResettingPort"]
          \/ port_config_phase' = [port_config_phase EXCEPT ![e.port] = "WaitingAddressed"]
      BY <1>6, <2>2 DEF OnPortStatusChange, ResetPort
    <3> QED BY <1>5, <2>1, <2>2, <3>1, OneArrow DEF Diagram
  <2>3. CASE port_config_phase[e.port] = "ResettingPort"
    <3>1. \/ port_config_phase' = port_config_phase
          \/ port_config_phase' = [port_config_phase EXCEPT ![e.port] = "EnablingSlot"]
      BY <1>6, <2>3 DEF OnPortStatusChange, EnableSlot, Ignore
    <3> QED BY <1>5, <2>1, <2>3, <3>1, OneArrow DEF Diagram
  <2>4. CASE port_config_phase[e.port] \notin {"NotConnected", "ResettingPort"}
    BY <1>5, <1>6, <2>4 DEF OnPortStatusChange, Ignore
  <2> QED BY <2>2, <2>3, <2>4
<1>7. CASE e.type = "EnableSlot" /\ AddressDevice(e.slot, ring)
  <2>1. \/ port_config_phase' = port_config_phase
        \/ /\ addressing_port # NoPort /\ port_config_phase[addressing_port] = "EnablingSlot"
           /\ port_config_phase' = [port_config_phase EXCEPT ![addressing_port] = "AddressingDevice"]
    BY <1>7 DEF AddressDevice, Ignore
  <2>2. addressing_port \in Port \cup {NoPort} BY DEF IInv, Good, PhasesOK
  <2> QED BY <1>5, <2>1, <2>2, OneArrow DEF Diagram
<1>8. CASE e.type = "AddressDevice" /\ OnDeviceAddressed(e.slot, ring)
  <2>1. CASE port_config_phase' = port_config_phase BY <1>5, <2>1
  <2>2. CASE /\ port_config_phase[devices[e.slot].port] = "AddressingDevice"
             /\ port_config_phase' = [q \in Port |-> IF q \in NextToReset THEN "ResettingPort"
                                        ELSE IF q = devices[e.slot].port THEN "InitializingDevice"
                                        ELSE port_config_phase[q]]
    <3>1. \A q \in NextToReset : port_config_phase[q] = "WaitingAddressed"
      BY DEF NextToReset
    <3> SUFFICES ASSUME NEW q \in Port, port_config_phase'[q] # port_config_phase[q]
                 PROVE  <<port_config_phase[q], port_config_phase'[q]>> \in Diagram
      BY DEF Follows
    <3> QED BY <2>2, <3>1 DEF Diagram
  <2> QED BY <1>8, <2>1, <2>2 DEF OnDeviceAddressed, Ignore
<1>9. CASE e.type = "Transfer" /\ OnTransfer(e.slot, e.port = 1, ring)
  <2>1. PICK p : p = OnTransferEventReceived(devices[e.slot], e.port = 1).port OBVIOUS
  <2>2. \/ port_config_phase' = port_config_phase
        \/ /\ port_config_phase[p] = "InitializingDevice"
           /\ port_config_phase' = [port_config_phase EXCEPT ![p] = "ConfiguringEndpoints"]
    BY <1>9, <2>1 DEF OnTransfer, ConfigureEndpoints
  <2>3. e.slot \in Slot /\ devices[e.slot].port \in Port /\ devices[e.slot] \in Device
    BY <1>3, <1>9 DEF Posted, IInv, Good, SlotsOK
  <2>4. p = devices[e.slot].port
    BY <2>1, <2>3 DEF OnTransferEventReceived, OnControlCompleted, Device
  <2> QED BY <1>5, <2>2, <2>3, <2>4, OneArrow DEF Diagram
<1>10. CASE e.type = "ConfigureEndpoint" /\ OnEndpointsConfigured(e.slot, ring)
  <2>1. PICK p : p = devices[e.slot].port OBVIOUS
  <2>2. p \in Port BY <1>3, <1>10, <2>1 DEF Posted, Commands
  <2>3. \/ port_config_phase' = port_config_phase
        \/ /\ port_config_phase[p] = "ConfiguringEndpoints"
           /\ port_config_phase' = [port_config_phase EXCEPT ![p] = "Configured"]
    BY <1>10, <2>1 DEF OnEndpointsConfigured, Ignore
  <2> QED BY <1>5, <2>2, <2>3, OneArrow DEF Diagram
<1> QED BY <1>1, <1>2, <1>6, <1>7, <1>8, <1>9, <1>10 DEF ProcessEvent

THEOREM DiagramFollowed == Spec => FollowsDiagram
<1>1. IInv /\ [Next]_vars => [Follows]_vars
  <2> SUFFICES ASSUME IInv, [Next]_vars PROVE Follows \/ UNCHANGED vars
    OBVIOUS
  <2>1. port_config_phase' = port_config_phase => Follows
    BY DEF Follows
  <2>2. CASE \E p \in Port : Plug(p) \/ Unplug(p)
    BY <2>1, <2>2 DEF Plug, Unplug, SetPort
  <2>3. CASE ExecuteCommand BY <2>1, <2>3 DEF ExecuteCommand
  <2>4. CASE \E s \in Slot : CompleteTransfer(s) BY <2>1, <2>4 DEF CompleteTransfer
  <2>5. CASE Boot
    <3>1. CASE port_config_phase[boot] = "NotConnected"
      <4>1. \/ port_config_phase' = port_config_phase
            \/ port_config_phase' = [port_config_phase EXCEPT ![boot] = "ResettingPort"]
            \/ port_config_phase' = [port_config_phase EXCEPT ![boot] = "WaitingAddressed"]
        BY <2>5, <3>1 DEF Boot, ResetPort
      <4> QED BY <2>1, <2>5, <3>1, <4>1, OneArrow DEF Boot, Diagram
    <3>2. CASE port_config_phase[boot] # "NotConnected"
      BY <2>1, <2>5, <3>2 DEF Boot
    <3> QED BY <3>1, <3>2
  <2>6. CASE ProcessEvent BY <2>6, ProcessEventFollows
  <2> QED BY <2>2, <2>3, <2>4, <2>5, <2>6 DEF Next
<1>2. [][Follows]_vars => FollowsDiagram BY PTL DEF FollowsDiagram, Follows
<1> QED BY <1>1, <1>2, Inductive, PTL DEF Spec
-----------------------------------------------------------------------------
(* The ring.                                                               *)

W == buf_size - 1

(* Commands C lie from entry i on, written with cycle bit b.               *)
Laid(buf, i, b, C) ==
  /\ \A k \in 1 .. Len(C) :
       IF i + k - 1 < W THEN buf[i + k - 1] = [trb |-> C[k], cycle_bit |-> b]
       ELSE buf[i + k - 1 - W] = [trb |-> C[k], cycle_bit |-> 1 - b]
  /\ \A j \in i .. W - 1 : j >= i + Len(C) => buf[j].cycle_bit = 1 - b
  /\ \A j \in 0 .. i - 1 : j >= i + Len(C) - W => buf[j].cycle_bit = b
  /\ IF i + Len(C) < W THEN buf[W].cycle_bit = 1 - b
     ELSE buf[W] = [trb |-> LinkTRB, cycle_bit |-> b]

(* `at` is where the controller goes on, behind the link if it is there.   *)
RInv(ring, c, C) ==
  LET at == IF c.index = W THEN [index |-> 0, cycle |-> 1 - c.cycle] ELSE c
  IN  /\ c.index \in 0 .. W /\ c.cycle \in 0 .. 1
      /\ c.index = W => ring.buf[W] = [trb |-> LinkTRB, cycle_bit |-> c.cycle]
      /\ DOMAIN ring.buf = 0 .. W
      /\ Laid(ring.buf, at.index, at.cycle, C)
      /\ IF at.index + Len(C) < W
         THEN ring.write_index = at.index + Len(C) /\ ring.cycle_bit = at.cycle
         ELSE ring.write_index = at.index + Len(C) - W /\ ring.cycle_bit = 1 - at.cycle

Entry == [trb : CommandTRB \cup {LinkTRB, Zero.trb}, cycle_bit : 0 .. 1]
RingType == [buf : [0 .. W -> Entry], write_index : 0 .. W, cycle_bit : 0 .. 1]

RingInv ==
  /\ cr \in RingType /\ crcr \in [index : 0 .. W, cycle : 0 .. 1]
  /\ RInv(cr, crcr, commands)
-----------------------------------------------------------------------------
(* There are no more commands than ports.                                  *)
LEMMA CommandsFit ==
  ASSUME NEW C \in Seq(CommandTRB), NEW E, Unique(C, E)
  PROVE  Len(C) \in Nat /\ Len(C) <= NumPorts
<1>1. PICK n \in Nat : n = Len(C) /\ DOMAIN C = 1 .. n
  OBVIOUS
<1>2. \A i \in 1 .. n : C[i] \in CommandTRB
  BY <1>1
<1>3. \A i \in 1 .. n : C[i].port \in Port
  BY <1>2 DEF CommandTRB
<1>4. \A i, j \in 1 .. n : C[i].port = C[j].port => i = j
  BY <1>1 DEF Unique
<1>5. SUFFICES ASSUME n > NumPorts PROVE FALSE
  BY <1>1, NumPortsAssumption
<1>6. PICK f : f = [i \in 1 .. n |-> C[i].port] OBVIOUS
<1>7. f \in [1 .. n -> Port]
  BY <1>3, <1>6
<1>8. /\ IsFiniteSet(1 .. n) /\ Cardinality(1 .. n) = n
      /\ IsFiniteSet(1 .. NumPorts) /\ Cardinality(1 .. NumPorts) = NumPorts
  <2>1. 1 \in Int /\ n \in Int /\ NumPorts \in Int /\ ~(1 > n) /\ ~(1 > NumPorts)
    BY <1>5, NumPortsAssumption
  <2>2. n - 1 + 1 = n /\ NumPorts - 1 + 1 = NumPorts BY <2>1
  <2> QED BY <2>1, <2>2, FS_Interval
<1>9. \E i, j \in 1 .. n : i # j /\ f[i] = f[j]
  <2>1. Cardinality(1 .. NumPorts) < Cardinality(1 .. n)
    BY <1>5, <1>8
  <2>2. f \in [1 .. n -> 1 .. NumPorts] BY <1>7 DEF Port
  <2> HIDE DEF Port
  <2> QED BY <1>8, <2>1, <2>2, FS_PigeonHole
<1> QED BY <1>4, <1>6, <1>9

LEMMA Sizes == W \in Nat /\ NumPorts \in Nat \ {0} /\ NumPorts < W /\ W >= 2
BY NumPortsAssumption, BufSizeAssumption DEF W

LEMMA LinkIsNoCommand ==
  ASSUME NEW c \in CommandTRB
  PROVE  c # LinkTRB
<1>1. c.type \in Commands BY DEF CommandTRB
<1>2. LinkTRB.type = "Link" BY DEF LinkTRB, Command
<1> QED BY <1>1, <1>2 DEF Commands
-----------------------------------------------------------------------------
LEMMA InitRingInv == RingInit => RingInv
<1> SUFFICES ASSUME RingInit PROVE RingInv
  OBVIOUS
<1>1. /\ cr = [buf |-> [i \in 0 .. W |-> Zero], write_index |-> 0, cycle_bit |-> 1]
      /\ crcr = [index |-> 0, cycle |-> 1] /\ commands = <<>>
  BY DEF RingInit, Init, W
<1>2. Zero = [trb |-> Zero.trb, cycle_bit |-> 0]
  BY DEF Zero
<1>3. cr \in RingType /\ crcr \in [index : 0 .. W, cycle : 0 .. 1]
  BY <1>1, <1>2, Sizes DEF RingType, Entry
<1>4. RInv(cr, crcr, commands)
  BY <1>1, <1>2, Sizes DEF RInv, Laid
<1> QED BY <1>3, <1>4 DEF RingInv

(* A command is written behind the others, and the link behind the last    *)
(* entry.                                                                  *)
Written(old, new, i, b, n, cmd) ==
  LET w   == IF i + n < W THEN i + n ELSE i + n - W
      bit == IF i + n < W THEN b ELSE 1 - b
  IN  /\ new[w] = [trb |-> cmd, cycle_bit |-> bit]
      /\ \A j \in 0 .. W - 1 : j # w => new[j] = old[j]
      /\ IF w + 1 = W THEN new[W] = [trb |-> LinkTRB, cycle_bit |-> bit] ELSE new[W] = old[W]

LEMMA LaidPush ==
  ASSUME NEW C \in Seq(CommandTRB), NEW cmd \in CommandTRB, Len(C) + 1 < W,
         NEW i \in 0 .. W - 1, NEW b \in 0 .. 1, NEW old, NEW new,
         Laid(old, i, b, C), Written(old, new, i, b, Len(C), cmd)
  PROVE  Laid(new, i, b, Append(C, cmd))
<1>a. PICK n \in Nat : n = Len(C) OBVIOUS
<1>b. PICK D : D = Append(C, cmd) OBVIOUS
<1>c. Len(D) = n + 1 /\ D[n + 1] = cmd /\ \A k \in 1 .. n : D[k] = C[k]
  BY <1>a, <1>b
<1>d. PICK w : w = IF i + n < W THEN i + n ELSE i + n - W OBVIOUS
<1>e. PICK bit : bit = IF i + n < W THEN b ELSE 1 - b OBVIOUS
<1>f. w \in 0 .. W - 1 /\ bit \in 0 .. 1 /\ n + 1 < W BY <1>a, <1>d, <1>e, Sizes
<1>g. /\ new[w] = [trb |-> cmd, cycle_bit |-> bit]
      /\ \A j \in 0 .. W - 1 : j # w => new[j] = old[j]
      /\ IF w + 1 = W THEN new[W] = [trb |-> LinkTRB, cycle_bit |-> bit] ELSE new[W] = old[W]
  BY <1>a, <1>d, <1>e DEF Written
<1> USE <1>a, <1>c, <1>d, <1>e, <1>f, <1>g
<1>1. ASSUME NEW k \in 1 .. Len(D)
      PROVE  IF i + k - 1 < W THEN new[i + k - 1] = [trb |-> D[k], cycle_bit |-> b]
             ELSE new[i + k - 1 - W] = [trb |-> D[k], cycle_bit |-> 1 - b]
  <2>1. CASE k = n + 1
    <3>1. i + k - 1 = i + n /\ D[k] = cmd BY <2>1
    <3>2. CASE i + n < W
      <4>1. w = i + k - 1 /\ bit = b BY <3>1, <3>2
      <4> QED BY <3>1, <3>2, <4>1
    <3>3. CASE ~(i + n < W)
      <4>1. w = i + k - 1 - W /\ bit = 1 - b BY <3>1, <3>3
      <4> QED BY <3>1, <3>3, <4>1
    <3> QED BY <3>2, <3>3
  <2>2. CASE k # n + 1
    <3>1. k \in 1 .. n /\ D[k] = C[k] BY <2>2
    <3>2. IF i + k - 1 < W THEN old[i + k - 1] = [trb |-> D[k], cycle_bit |-> b]
          ELSE old[i + k - 1 - W] = [trb |-> D[k], cycle_bit |-> 1 - b]
      BY <3>1 DEF Laid
    <3>3. CASE i + k - 1 < W
      <4>1. i + k - 1 \in 0 .. W - 1 /\ i + k - 1 # w BY <3>1, <3>3, Sizes
      <4> QED BY <3>2, <3>3, <4>1
    <3>4. CASE ~(i + k - 1 < W)
      <4>1. i + k - 1 - W \in 0 .. W - 1 /\ i + k - 1 - W # w BY <3>1, <3>4, Sizes
      <4> QED BY <3>2, <3>4, <4>1
    <3> QED BY <3>3, <3>4
  <2> QED BY <2>1, <2>2
<1>2. ASSUME NEW j \in i .. W - 1, j >= i + Len(D)
      PROVE  new[j].cycle_bit = 1 - b
  <2>1. j \in 0 .. W - 1 /\ j # w /\ j >= i + Len(C) BY <1>2, Sizes
  <2> QED BY <2>1 DEF Laid
<1>3. ASSUME NEW j \in 0 .. i - 1, j >= i + Len(D) - W
      PROVE  new[j].cycle_bit = b
  <2>1. j \in Int /\ 0 <= j /\ j < i /\ i < W /\ j >= i + n + 1 - W /\ i \in Int /\ W \in Int
    BY <1>3, Sizes
  <2>2. j # w
    <3>1. CASE i + n < W BY <2>1, <3>1
    <3>2. CASE ~(i + n < W) BY <2>1, <3>2
    <3> QED BY <3>1, <3>2
  <2>3. j \in 0 .. W - 1 /\ j >= i + Len(C) - W BY <2>1
  <2> QED BY <2>2, <2>3 DEF Laid
<1>4. IF i + Len(D) < W THEN new[W].cycle_bit = 1 - b
      ELSE new[W] = [trb |-> LinkTRB, cycle_bit |-> b]
  <2>1. IF i + n < W THEN old[W].cycle_bit = 1 - b
        ELSE old[W] = [trb |-> LinkTRB, cycle_bit |-> b]
    BY DEF Laid
  <2>2. CASE w + 1 = W
    <3>1. i + n < W /\ bit = b /\ ~(i + Len(D) < W) BY <2>2, Sizes
    <3> QED BY <2>2, <3>1
  <2>3. CASE w + 1 # W
    <3>1. CASE i + n < W
      <4>1. i + Len(D) < W BY <2>3, <3>1, Sizes
      <4> QED BY <2>1, <2>3, <3>1, <4>1
    <3>2. CASE ~(i + n < W)
      <4>1. ~(i + Len(D) < W) BY <3>2, Sizes
      <4> QED BY <2>1, <2>3, <3>2, <4>1
    <3> QED BY <3>1, <3>2
  <2> QED BY <2>2, <2>3
<1> QED BY <1>b, <1>1, <1>2, <1>3, <1>4 DEF Laid

(* What Push writes.                                                       *)
LEMMA PushWrites ==
  ASSUME NEW ring \in RingType, NEW cmd \in CommandTRB, ring.write_index \in 0 .. W - 1
  PROVE  LET r == Push(ring, cmd)
             w == ring.write_index
         IN  /\ r \in RingType
             /\ r.buf[w] = [trb |-> cmd, cycle_bit |-> ring.cycle_bit]
             /\ \A j \in 0 .. W - 1 : j # w => r.buf[j] = ring.buf[j]
             /\ IF w + 1 = W
                THEN /\ r.buf[W] = [trb |-> LinkTRB, cycle_bit |-> ring.cycle_bit]
                     /\ r.write_index = 0 /\ r.cycle_bit = 1 - ring.cycle_bit
                ELSE /\ r.buf[W] = ring.buf[W]
                     /\ r.write_index = w + 1 /\ r.cycle_bit = ring.cycle_bit
<1>1. PICK w : w = ring.write_index OBVIOUS
<1>2. PICK bit : bit = ring.cycle_bit OBVIOUS
<1>3. PICK buf : buf = ring.buf OBVIOUS
<1>4. w \in 0 .. W - 1 /\ bit \in 0 .. 1 /\ buf \in [0 .. W -> Entry]
  BY <1>1, <1>2, <1>3 DEF RingType
<1>5. ring = [buf |-> buf, write_index |-> w, cycle_bit |-> bit]
  BY <1>1, <1>2, <1>3 DEF RingType
<1>6. PICK entry : entry = [trb |-> cmd, cycle_bit |-> bit] OBVIOUS
<1>7. PICK link : link = [trb |-> LinkTRB, cycle_bit |-> bit] OBVIOUS
<1>8. entry \in Entry /\ link \in Entry
  BY <1>4, <1>6, <1>7 DEF Entry
<1>9. w \in 0 .. W /\ W \in 0 .. W /\ w # W /\ W = buf_size - 1
  BY <1>4, Sizes DEF W
<1>10. PICK one : one = [buf EXCEPT ![w] = entry] OBVIOUS
<1>11. /\ one \in [0 .. W -> Entry] /\ one[w] = entry
       /\ \A j \in 0 .. W : j # w => one[j] = buf[j]
  BY <1>4, <1>8, <1>9, <1>10
<1>12. PICK two : two = [one EXCEPT ![W] = link] OBVIOUS
<1>13. /\ two \in [0 .. W -> Entry] /\ two[W] = link
       /\ \A j \in 0 .. W : j # W => two[j] = one[j]
  BY <1>8, <1>9, <1>11, <1>12
<1>14. CopyToLast(ring, cmd) = [buf |-> one, write_index |-> w, cycle_bit |-> bit]
  BY <1>5, <1>6, <1>10 DEF CopyToLast
<1>15. PICK next : next = [buf |-> one, write_index |-> w + 1, cycle_bit |-> bit] OBVIOUS
<1>16. [CopyToLast(ring, cmd) EXCEPT !.write_index = @ + 1] = next
  BY <1>14, <1>15
<1>17. CopyToLast(next, LinkTRB)
         = [buf |-> [one EXCEPT ![w + 1] = link], write_index |-> w + 1, cycle_bit |-> bit]
  BY <1>7, <1>15 DEF CopyToLast
<1>18. PICK r : r = Push(ring, cmd) OBVIOUS
<1>19. r = IF next.write_index = buf_size - 1
           THEN [CopyToLast(next, LinkTRB) EXCEPT !.write_index = 0, !.cycle_bit = 1 - @]
           ELSE next
  BY <1>16, <1>18 DEF Push
<1>20. CASE w + 1 = W
  <2>1. r = [buf |-> two, write_index |-> 0, cycle_bit |-> 1 - bit]
    <3>1. next.write_index = buf_size - 1 BY <1>9, <1>15, <1>20
    <3>2. CopyToLast(next, LinkTRB) = [buf |-> two, write_index |-> W, cycle_bit |-> bit]
      BY <1>12, <1>17, <1>20
    <3>3. PICK x : x = CopyToLast(next, LinkTRB) OBVIOUS
    <3>4. r = [x EXCEPT !.write_index = 0, !.cycle_bit = 1 - @] BY <1>19, <3>1, <3>3
    <3>5. x = [buf |-> two, write_index |-> W, cycle_bit |-> bit] BY <3>2, <3>3
    <3> QED BY <3>4, <3>5
  <2>2. 0 \in 0 .. W /\ 1 - bit \in 0 .. 1
    BY <1>4, Sizes
  <2>3. r \in RingType
    BY <1>13, <2>1, <2>2 DEF RingType
  <2>4. r.buf[w] = entry /\ r.buf[W] = link /\ \A j \in 0 .. W - 1 : j # w => r.buf[j] = buf[j]
    <3>1. \A j \in 0 .. W - 1 : j \in 0 .. W /\ j # W BY Sizes
    <3> QED BY <1>9, <1>11, <1>13, <2>1, <3>1
  <2> QED BY <1>1, <1>2, <1>3, <1>6, <1>7, <1>18, <1>20, <2>1, <2>3, <2>4
<1>21. CASE w + 1 # W
  <2>1. r = next
    BY <1>9, <1>15, <1>19, <1>21
  <2>2. w + 1 \in 0 .. W
    BY <1>4, Sizes
  <2>3. r \in RingType
    BY <1>4, <1>11, <1>15, <2>1, <2>2 DEF RingType
  <2>4. r.buf[w] = entry /\ r.buf[W] = buf[W] /\ \A j \in 0 .. W - 1 : j # w => r.buf[j] = buf[j]
    <3>1. \A j \in 0 .. W - 1 : j \in 0 .. W BY Sizes
    <3> QED BY <1>9, <1>11, <1>15, <2>1, <3>1
  <2> QED BY <1>1, <1>2, <1>3, <1>6, <1>15, <1>18, <1>21, <2>1, <2>3, <2>4
<1> QED BY <1>20, <1>21

LEMMA PushKeeps ==
  ASSUME NEW ring \in RingType, NEW c \in [index : 0 .. W, cycle : 0 .. 1],
         NEW C \in Seq(CommandTRB), NEW cmd \in CommandTRB,
         RInv(ring, c, C), Len(C) + 1 < W
  PROVE  Push(ring, cmd) \in RingType /\ RInv(Push(ring, cmd), c, Append(C, cmd))
<1>1. PICK n \in Nat : n = Len(C) OBVIOUS
<1>2. PICK D : D = Append(C, cmd) OBVIOUS
<1>3. Len(D) = n + 1 /\ D[n + 1] = cmd /\ \A k \in 1 .. n : D[k] = C[k]
  BY <1>1, <1>2
<1>4. PICK r : r = Push(ring, cmd) OBVIOUS
<1>5. PICK w : w = ring.write_index OBVIOUS
<1>6. PICK i : i = IF c.index = W THEN 0 ELSE c.index OBVIOUS
<1>7. PICK b : b = IF c.index = W THEN 1 - c.cycle ELSE c.cycle OBVIOUS
<1>8. PICK at : at = IF c.index = W THEN [index |-> 0, cycle |-> 1 - c.cycle] ELSE c
  OBVIOUS
<1>9. at.index = i /\ at.cycle = b
  BY <1>6, <1>7, <1>8
<1>10. i \in 0 .. W - 1 /\ b \in 0 .. 1 /\ n + 1 < W
  BY <1>1, <1>6, <1>7, Sizes
<1>11. /\ c.index = W => ring.buf[W] = [trb |-> LinkTRB, cycle_bit |-> c.cycle]
       /\ Laid(ring.buf, i, b, C)
       /\ IF i + n < W
          THEN w = i + n /\ ring.cycle_bit = b
          ELSE w = i + n - W /\ ring.cycle_bit = 1 - b
  BY <1>1, <1>5, <1>8, <1>9 DEF RInv
<1>12. w \in 0 .. W - 1 /\ ring.cycle_bit \in 0 .. 1
  <2>1. ring.cycle_bit \in 0 .. 1 BY DEF RingType
  <2> QED BY <1>10, <1>11, <2>1, Sizes
<1>13. /\ r \in RingType
       /\ r.buf[w] = [trb |-> cmd, cycle_bit |-> ring.cycle_bit]
       /\ \A j \in 0 .. W - 1 : j # w => r.buf[j] = ring.buf[j]
       /\ IF w + 1 = W
          THEN /\ r.buf[W] = [trb |-> LinkTRB, cycle_bit |-> ring.cycle_bit]
               /\ r.write_index = 0 /\ r.cycle_bit = 1 - ring.cycle_bit
          ELSE /\ r.buf[W] = ring.buf[W]
               /\ r.write_index = w + 1 /\ r.cycle_bit = ring.cycle_bit
  BY <1>4, <1>5, <1>12, PushWrites
<1>14. Laid(r.buf, i, b, D)
  <2>1. w = IF i + n < W THEN i + n ELSE i + n - W BY <1>11
  <2>2. ring.cycle_bit = IF i + n < W THEN b ELSE 1 - b BY <1>11
  <2>3. Written(ring.buf, r.buf, i, b, n, cmd) BY <1>13, <2>1, <2>2 DEF Written
  <2> QED BY <1>1, <1>2, <1>10, <1>11, <2>3, LaidPush
<1>15. c.index = W => r.buf[W] = [trb |-> LinkTRB, cycle_bit |-> c.cycle]
  <2>1. c.index = W => w + 1 # W BY <1>6, <1>10, <1>11, Sizes
  <2> QED BY <1>11, <1>13, <2>1
<1>16. IF i + Len(D) < W THEN r.write_index = i + Len(D) /\ r.cycle_bit = b
       ELSE r.write_index = i + Len(D) - W /\ r.cycle_bit = 1 - b
  <2>1. CASE w + 1 = W
    <3>1. i + n < W /\ i + Len(D) = W /\ ring.cycle_bit = b
      BY <1>3, <1>10, <1>11, <2>1, Sizes
    <3>2. r.write_index = 0 /\ r.cycle_bit = 1 - ring.cycle_bit BY <1>13, <2>1
    <3>3. ~(i + Len(D) < W) /\ i + Len(D) - W = 0 BY <1>3, <1>10, <3>1, Sizes
    <3> QED BY <3>1, <3>2, <3>3
  <2>2. CASE w + 1 # W
    <3>1. r.write_index = w + 1 /\ r.cycle_bit = ring.cycle_bit BY <1>13, <2>2
    <3>2. CASE i + n < W
      <4>1. w = i + n /\ ring.cycle_bit = b BY <1>11, <3>2
      <4>2. i + Len(D) < W /\ w + 1 = i + Len(D) BY <1>3, <1>10, <2>2, <3>2, <4>1, Sizes
      <4> QED BY <3>1, <4>1, <4>2
    <3>3. CASE ~(i + n < W)
      <4>1. w = i + n - W /\ ring.cycle_bit = 1 - b BY <1>11, <3>3
      <4>2. ~(i + Len(D) < W) /\ w + 1 = i + Len(D) - W BY <1>3, <1>10, <3>3, <4>1, Sizes
      <4> QED BY <3>1, <4>1, <4>2
    <3> QED BY <3>2, <3>3
  <2> QED BY <2>1, <2>2
<1>17. DOMAIN r.buf = 0 .. W BY <1>13 DEF RingType
<1> QED
  <2>1. RInv(r, c, D) BY <1>8, <1>9, <1>14, <1>15, <1>16, <1>17 DEF RInv
  <2> QED BY <1>2, <1>4, <1>13, <2>1
-----------------------------------------------------------------------------
(* The controller goes on where Dequeue says.                              *)
GoesOn(c) == IF c.index = W THEN [index |-> 0, cycle |-> 1 - c.cycle] ELSE c

LEMMA WhereItGoesOn ==
  ASSUME RingInv, commands \in Seq(CommandTRB), Len(commands) < W
  PROVE  Dequeue = GoesOn(crcr)
<1>1. crcr.index \in 0 .. W /\ crcr.cycle \in 0 .. 1 BY DEF RingInv, RInv
<1>2. CASE crcr.index = W
  <2>1. cr.buf[crcr.index] = [trb |-> LinkTRB, cycle_bit |-> crcr.cycle]
    BY <1>2 DEF RingInv, RInv
  <2> QED BY <1>2, <2>1 DEF Dequeue, GoesOn
<1>3. CASE crcr.index # W
  <2>1. PICK i : i = crcr.index OBVIOUS
  <2>2. i \in 0 .. W - 1 /\ Laid(cr.buf, i, crcr.cycle, commands)
    BY <1>1, <1>3, <2>1, Sizes DEF RingInv, RInv
  <2>3. CASE commands = <<>>
    <3>1. i \in i .. W - 1 /\ i >= i + Len(commands) BY <2>2, <2>3, Sizes
    <3>2. cr.buf[i].cycle_bit = 1 - crcr.cycle BY <2>2, <3>1 DEF Laid
    <3>3. cr.buf[i].cycle_bit # crcr.cycle BY <1>1, <3>2
    <3> QED BY <1>3, <2>1, <3>3 DEF Dequeue, GoesOn
  <2>4. CASE commands # <<>>
    <3>1. 1 \in 1 .. Len(commands) /\ commands[1] \in CommandTRB BY <2>4
    <3>2. i + 1 - 1 = i /\ i < W BY <2>2, Sizes
    <3>3. cr.buf[i] = [trb |-> commands[1], cycle_bit |-> crcr.cycle]
      BY <2>2, <3>1, <3>2 DEF Laid
    <3>4. cr.buf[i].trb # LinkTRB BY <3>1, <3>3, LinkIsNoCommand
    <3> QED BY <1>3, <2>1, <3>4 DEF Dequeue, GoesOn
  <2> QED BY <2>3, <2>4
<1> QED BY <1>2, <1>3

LEMMA RingInvHolds ==
  ASSUME RingInv, commands \in Seq(CommandTRB), Len(commands) < W
  PROVE  RingHoldsCommands
<1>1. PICK at : at = GoesOn(crcr) OBVIOUS
<1>2. Dequeue = at BY <1>1, WhereItGoesOn
<1>3. Laid(cr.buf, at.index, at.cycle, commands)
  BY <1>1 DEF RingInv, RInv, GoesOn
<1>4. at.index \in 0 .. W - 1 /\ at.cycle \in 0 .. 1
  <2>1. crcr.index \in 0 .. W /\ crcr.cycle \in 0 .. 1 BY DEF RingInv, RInv
  <2> QED BY <1>1, <2>1, Sizes DEF GoesOn
<1>5. CASE commands = <<>>
  <2>1. at.index \in at.index .. W - 1 /\ at.index >= at.index + Len(commands)
    BY <1>4, <1>5, Sizes
  <2>2. cr.buf[at.index].cycle_bit = 1 - at.cycle BY <1>3, <2>1 DEF Laid
  <2>3. cr.buf[at.index].cycle_bit # at.cycle BY <1>4, <2>2
  <2> QED BY <1>2, <1>5, <2>3 DEF RingHoldsCommands
<1>6. CASE commands # <<>>
  <2>1. 1 \in 1 .. Len(commands) /\ commands[1] = Head(commands) BY <1>6
  <2>2. at.index + 1 - 1 = at.index /\ at.index < W BY <1>4, Sizes
  <2>3. cr.buf[at.index] = [trb |-> Head(commands), cycle_bit |-> at.cycle]
    BY <1>3, <2>1, <2>2 DEF Laid
  <2> QED BY <1>2, <1>6, <2>3 DEF RingHoldsCommands
<1> QED BY <1>5, <1>6

(* The controller takes the first command.                                 *)
LEMMA LaidTail ==
  ASSUME NEW C \in Seq(CommandTRB), C # <<>>, Len(C) < W,
         NEW i \in 0 .. W - 1, NEW b \in 0 .. 1, NEW buf, Laid(buf, i, b, C)
  PROVE  IF i + 1 < W THEN Laid(buf, i + 1, b, Tail(C)) ELSE Laid(buf, 0, 1 - b, Tail(C))
<1>1. PICK n \in Nat : n = Len(C) OBVIOUS
<1>2. PICK D : D = Tail(C) OBVIOUS
<1>3. n >= 1 /\ n < W /\ Len(D) = n - 1 /\ \A k \in 1 .. n - 1 : D[k] = C[k + 1]
  BY <1>1, <1>2, TailEntries
<1>4. buf[i].cycle_bit = b
  <2>1. 1 \in 1 .. Len(C) /\ i + 1 - 1 = i /\ i < W BY <1>1, <1>3, Sizes
  <2>2. buf[i] = [trb |-> C[1], cycle_bit |-> b] BY <2>1 DEF Laid
  <2> QED BY <2>2
<1>5. \A k \in 1 .. n - 1 :
        IF i + k < W THEN buf[i + k] = [trb |-> D[k], cycle_bit |-> b]
        ELSE buf[i + k - W] = [trb |-> D[k], cycle_bit |-> 1 - b]
  <2> SUFFICES ASSUME NEW k \in 1 .. n - 1
               PROVE  IF i + k < W THEN buf[i + k] = [trb |-> D[k], cycle_bit |-> b]
                      ELSE buf[i + k - W] = [trb |-> D[k], cycle_bit |-> 1 - b]
    OBVIOUS
  <2>1. k + 1 \in 1 .. Len(C) /\ i + (k + 1) - 1 = i + k /\ D[k] = C[k + 1]
    BY <1>1, <1>3
  <2>2. IF i + (k + 1) - 1 < W THEN buf[i + (k + 1) - 1] = [trb |-> C[k + 1], cycle_bit |-> b]
        ELSE buf[i + (k + 1) - 1 - W] = [trb |-> C[k + 1], cycle_bit |-> 1 - b]
    BY <2>1 DEF Laid
  <2> QED BY <2>1, <2>2
<1>6. \A j \in i .. W - 1 : j >= i + n => buf[j].cycle_bit = 1 - b
  BY <1>1 DEF Laid
<1>7. \A j \in 0 .. i - 1 : j >= i + n - W => buf[j].cycle_bit = b
  BY <1>1 DEF Laid
<1>8. IF i + n < W THEN buf[W].cycle_bit = 1 - b
      ELSE buf[W] = [trb |-> LinkTRB, cycle_bit |-> b]
  BY <1>1 DEF Laid
<1>9. CASE i + 1 < W
  <2>1. ASSUME NEW k \in 1 .. Len(D)
        PROVE  IF i + 1 + k - 1 < W THEN buf[i + 1 + k - 1] = [trb |-> D[k], cycle_bit |-> b]
               ELSE buf[i + 1 + k - 1 - W] = [trb |-> D[k], cycle_bit |-> 1 - b]
    <3>1. k \in 1 .. n - 1 /\ i + 1 + k - 1 = i + k BY <1>3
    <3>2. IF i + k < W THEN buf[i + k] = [trb |-> D[k], cycle_bit |-> b]
          ELSE buf[i + k - W] = [trb |-> D[k], cycle_bit |-> 1 - b]
      BY <1>5, <3>1
    <3>3. CASE i + k < W
      <4>1. i + 1 + k - 1 < W /\ i + 1 + k - 1 \in Int BY <3>1, <3>3, Sizes
      <4> QED BY <3>1, <3>2, <3>3, <4>1
    <3>4. CASE ~(i + k < W)
      <4>1. ~(i + 1 + k - 1 < W) /\ i + 1 + k - 1 - W = i + k - W BY <3>1, <3>4, Sizes
      <4> QED BY <3>2, <3>4, <4>1
    <3> QED BY <3>3, <3>4
  <2>2. ASSUME NEW j \in i + 1 .. W - 1, j >= i + 1 + Len(D) PROVE buf[j].cycle_bit = 1 - b
    <3>1. j \in i .. W - 1 /\ j >= i + n BY <1>3, <2>2, Sizes
    <3> QED BY <1>6, <3>1
  <2>3. ASSUME NEW j \in 0 .. i + 1 - 1, j >= i + 1 + Len(D) - W PROVE buf[j].cycle_bit = b
    <3>1. j = i \/ (j \in 0 .. i - 1 /\ j >= i + n - W) BY <1>3, <2>3, Sizes
    <3> QED BY <1>4, <1>7, <3>1
  <2>4. IF i + 1 + Len(D) < W THEN buf[W].cycle_bit = 1 - b
        ELSE buf[W] = [trb |-> LinkTRB, cycle_bit |-> b]
    <3>1. i + 1 + Len(D) = i + n BY <1>3
    <3> QED BY <1>8, <3>1
  <2>5. Laid(buf, i + 1, b, D) BY <2>1, <2>2, <2>3, <2>4 DEF Laid
  <2> QED BY <1>2, <1>9, <2>5
<1>10. CASE ~(i + 1 < W)
  <2>1. i = W - 1 /\ ~(i + n < W) BY <1>3, <1>10, Sizes
  <2>2. PICK a : a = 1 - b OBVIOUS
  <2>3. a \in 0 .. 1 /\ 1 - a = b BY <2>2
  <2>4. ASSUME NEW k \in 1 .. Len(D)
        PROVE  IF 0 + k - 1 < W THEN buf[0 + k - 1] = [trb |-> D[k], cycle_bit |-> a]
               ELSE buf[0 + k - 1 - W] = [trb |-> D[k], cycle_bit |-> 1 - a]
    <3>1. /\ k \in 1 .. n - 1 /\ 0 + k - 1 < W
          /\ ~(i + k < W) /\ i + k - W = 0 + k - 1
      BY <1>3, <2>1, Sizes
    <3> QED BY <1>5, <2>2, <3>1
  <2>5. ASSUME NEW j \in 0 .. W - 1, j >= 0 + Len(D) PROVE buf[j].cycle_bit = 1 - a
    <3>1. j = i \/ (j \in 0 .. i - 1 /\ j >= i + n - W) BY <1>3, <2>1, <2>5, Sizes
    <3> QED BY <1>4, <1>7, <2>3, <3>1
  <2>6. \A j \in 0 .. 0 - 1 : FALSE OBVIOUS
  <2>7. 0 + Len(D) < W /\ buf[W].cycle_bit = 1 - a
    <3>1. buf[W].cycle_bit = b BY <1>8, <2>1
    <3>2. 0 + Len(D) < W BY <1>3, Sizes
    <3> QED BY <2>3, <3>1, <3>2
  <2>8. Laid(buf, 0, a, D) BY <2>4, <2>5, <2>6, <2>7 DEF Laid
  <2> QED BY <1>2, <1>10, <2>2, <2>8
<1> QED BY <1>9, <1>10

LEMMA ExecuteKeeps ==
  ASSUME RingInv, commands \in Seq(CommandTRB), Len(commands) < W, ExecuteFromRing
  PROVE  RingInv'
<1>1. PICK at : at = GoesOn(crcr) OBVIOUS
<1>2. PICK n \in Nat : n = Len(commands) OBVIOUS
<1>3. PICK D : D = Tail(commands) OBVIOUS
<1>4. commands # <<>> /\ commands' = D /\ cr' = cr /\ n >= 1 /\ n < W /\ Len(D) = n - 1
  BY <1>2, <1>3, TailEntries DEF ExecuteFromRing, ExecuteCommand
<1>5. crcr \in [index : 0 .. W, cycle : 0 .. 1] BY DEF RingInv
<1>6. PICK i : i = at.index OBVIOUS
<1>7. PICK b : b = at.cycle OBVIOUS
<1>8. at = [index |-> i, cycle |-> b] /\ i \in 0 .. W - 1 /\ b \in 0 .. 1
  BY <1>1, <1>5, <1>6, <1>7, Sizes DEF GoesOn
<1>9. PICK c : c = crcr' OBVIOUS
<1>10. c = [index |-> i + 1, cycle |-> b]
  <2>1. crcr' = [at EXCEPT !.index = @ + 1] BY <1>1, WhereItGoesOn DEF ExecuteFromRing
  <2> QED BY <1>8, <1>9, <2>1
<1>11. /\ Laid(cr.buf, i, b, commands)
       /\ IF i + n < W THEN cr.write_index = i + n /\ cr.cycle_bit = b
          ELSE cr.write_index = i + n - W /\ cr.cycle_bit = 1 - b
       /\ DOMAIN cr.buf = 0 .. W
  BY <1>1, <1>2, <1>6, <1>7 DEF RingInv, RInv, GoesOn
<1>12. i + 1 \in 0 .. W BY <1>8, Sizes
<1>13. IF i + 1 < W THEN Laid(cr.buf, i + 1, b, D) ELSE Laid(cr.buf, 0, 1 - b, D)
  BY <1>2, <1>3, <1>4, <1>8, <1>11, LaidTail
<1>14. RInv(cr, c, D)
  <2>1. CASE i + 1 < W
    <3>1. c.index # W /\ c.index = i + 1 /\ c.cycle = b BY <1>10, <2>1, Sizes
    <3>2. i + 1 + Len(D) = i + n BY <1>4, <1>8
    <3>3. IF c.index + Len(D) < W
          THEN cr.write_index = c.index + Len(D) /\ cr.cycle_bit = c.cycle
          ELSE cr.write_index = c.index + Len(D) - W /\ cr.cycle_bit = 1 - c.cycle
      <4>1. c.index + Len(D) = i + n BY <3>1, <3>2
      <4>2. CASE i + n < W BY <1>11, <3>1, <4>1, <4>2
      <4>3. CASE ~(i + n < W)
        <5>1. c.index + Len(D) - W = i + n - W BY <1>4, <1>8, <3>1, Sizes
        <5> QED BY <1>11, <3>1, <4>1, <4>3, <5>1
      <4> QED BY <4>2, <4>3
    <3> QED BY <1>8, <1>11, <1>12, <1>13, <2>1, <3>1, <3>3 DEF RInv
  <2>2. CASE ~(i + 1 < W)
    <3>1. c.index = W /\ c.cycle = b /\ i = W - 1 BY <1>8, <1>10, <2>2, Sizes
    <3>2. ~(i + n < W) /\ i + n - W = 0 + Len(D) /\ 0 + Len(D) < W BY <1>4, <3>1, Sizes
    <3>3. cr.buf[W] = [trb |-> LinkTRB, cycle_bit |-> b]
      BY <1>2, <1>11, <3>2 DEF Laid
    <3>4. cr.write_index = 0 + Len(D) /\ cr.cycle_bit = 1 - b BY <1>11, <3>2
    <3>5. PICK a : a = [index |-> 0, cycle |-> 1 - b] OBVIOUS
    <3>6. Laid(cr.buf, a.index, a.cycle, D) BY <1>13, <2>2, <3>5
    <3>7. /\ a.index + Len(D) < W
          /\ cr.write_index = a.index + Len(D) /\ cr.cycle_bit = a.cycle
      BY <3>2, <3>4, <3>5
    <3>8. a = IF c.index = W THEN [index |-> 0, cycle |-> 1 - c.cycle] ELSE c
      BY <3>1, <3>5
    <3>9. c.index \in 0 .. W /\ c.cycle \in 0 .. 1 BY <1>8, <1>10, <1>12
    <3>10. c.index = W => cr.buf[W] = [trb |-> LinkTRB, cycle_bit |-> c.cycle] BY <3>1, <3>3
    <3> QED BY <1>11, <3>6, <3>7, <3>8, <3>9, <3>10 DEF RInv
  <2> QED BY <2>1, <2>2
<1>15. c \in [index : 0 .. W, cycle : 0 .. 1] BY <1>8, <1>10, <1>12
<1>16. cr' \in RingType /\ crcr' \in [index : 0 .. W, cycle : 0 .. 1] /\ RInv(cr', crcr', commands')
  BY <1>4, <1>9, <1>14, <1>15 DEF RingInv
<1> QED BY <1>16 DEF RingInv
-----------------------------------------------------------------------------
(* A handler pushes one command or none.                                   *)
LEMMA OneCommandAtMost ==
  ASSUME ProcessEvent
  PROVE  commands' = commands \/ \E c : commands' = Append(commands, c)
<1>1. PICK e : e = Head(events) OBVIOUS
<1>2. PICK ring : ring = Tail(events) OBVIOUS
<1>3. Ignore(ring) => commands' = commands BY DEF Ignore
<1>4. CASE OnPortStatusChange(e.port, ring)
  <2>1. CASE port_config_phase[e.port] = "NotConnected"
    BY <1>4, <2>1 DEF OnPortStatusChange
  <2>2. CASE port_config_phase[e.port] = "ResettingPort"
    BY <1>3, <1>4, <2>2 DEF OnPortStatusChange, EnableSlot
  <2>3. CASE port_config_phase[e.port] \notin {"NotConnected", "ResettingPort"}
    BY <1>3, <1>4, <2>3 DEF OnPortStatusChange
  <2> QED BY <2>1, <2>2, <2>3
<1>5. CASE AddressDevice(e.slot, ring) BY <1>3, <1>5 DEF AddressDevice
<1>6. CASE OnDeviceAddressed(e.slot, ring) BY <1>3, <1>6 DEF OnDeviceAddressed
<1>7. CASE OnTransfer(e.slot, e.port = 1, ring) BY <1>7 DEF OnTransfer, ConfigureEndpoints
<1>8. CASE OnEndpointsConfigured(e.slot, ring) BY <1>3, <1>8 DEF OnEndpointsConfigured
<1> QED BY <1>1, <1>2, <1>4, <1>5, <1>6, <1>7, <1>8 DEF ProcessEvent

LEMMA ProcessKeeps ==
  ASSUME RingInv, commands \in Seq(CommandTRB), commands' \in Seq(CommandTRB),
         Len(commands') < W, ProcessEventPushing
  PROVE  RingInv'
<1>1. CASE commands' = commands
  BY <1>1 DEF ProcessEventPushing, RingInv
<1>2. CASE commands' # commands
  <2>1. PICK c : commands' = Append(commands, c)
    BY <1>2, OneCommandAtMost DEF ProcessEventPushing
  <2>2. /\ Len(commands') = Len(commands) + 1 /\ Len(commands) \in Nat
        /\ commands'[Len(commands')] = c /\ Len(commands') \in 1 .. Len(commands')
    BY <2>1
  <2>3. c \in CommandTRB BY <2>2
  <2>4. cr' = Push(cr, c) /\ crcr' = crcr
    BY <1>2, <2>2 DEF ProcessEventPushing
  <2>5. cr' \in RingType /\ RInv(cr', crcr, commands')
    BY <2>1, <2>2, <2>3, <2>4, PushKeeps DEF RingInv
  <2> QED BY <2>4, <2>5 DEF RingInv
<1> QED BY <1>1, <1>2

(* The ring only adds what Xhci leaves open.                               *)
LEMMA RingNextIsNext == [RingNext]_ringVars => [Next]_vars
BY DEF RingNext, Next, ringVars, vars, ExecuteFromRing, ProcessEventPushing

THEOREM RingImplementsXhci == RingSpec => Spec
<1>1. RingInit => Init BY DEF RingInit
<1> QED BY <1>1, RingNextIsNext, PTL DEF RingSpec, Spec

LEMMA NextRingInv ==
  ASSUME IInv, IInv', RingInv, [RingNext]_ringVars
  PROVE  RingInv'
<1>1. /\ commands \in Seq(CommandTRB) /\ Len(commands) < W
      /\ commands' \in Seq(CommandTRB) /\ Len(commands') < W
  <2>1. commands \in Seq(CommandTRB) /\ Unique(commands, events)
    BY DEF IInv, Good, QueuesOK
  <2>2. commands' \in Seq(CommandTRB) /\ Unique(commands', events')
    BY DEF IInv, Good, QueuesOK
  <2>3. Len(commands) \in Nat /\ Len(commands) <= NumPorts BY <2>1, CommandsFit
  <2>4. Len(commands') \in Nat /\ Len(commands') <= NumPorts BY <2>2, CommandsFit
  <2> QED BY <2>1, <2>2, <2>3, <2>4, Sizes
<1>2. commands' = commands /\ cr' = cr /\ crcr' = crcr => RingInv'
  BY DEF RingInv
<1>3. CASE \E p \in Port : (Plug(p) \/ Unplug(p)) /\ UNCHANGED <<cr, crcr>>
  BY <1>2, <1>3 DEF Plug, Unplug, SetPort
<1>4. CASE \E s \in Slot : CompleteTransfer(s) /\ UNCHANGED <<cr, crcr>>
  BY <1>2, <1>4 DEF CompleteTransfer
<1>5. CASE Boot /\ UNCHANGED <<cr, crcr>>
  BY <1>2, <1>5 DEF Boot
<1>6. CASE ExecuteFromRing BY <1>1, <1>6, ExecuteKeeps
<1>7. CASE ProcessEventPushing BY <1>1, <1>7, ProcessKeeps
<1>8. CASE UNCHANGED ringVars BY <1>2, <1>8 DEF ringVars
<1> QED BY <1>3, <1>4, <1>5, <1>6, <1>7, <1>8 DEF RingNext

(* Whatever is pushed and executed, the controller finds the next command  *)
(* that was pushed in the ring, and nothing when there is none.            *)
THEOREM RingIsFaithful == RingSpec => []RingHoldsCommands
<1>1. RingSpec => []IInv BY RingImplementsXhci, Inductive, PTL
<1>2. IInv /\ IInv' /\ RingInv /\ [RingNext]_ringVars => RingInv'
  BY NextRingInv
<1>3. IInv /\ RingInv => RingHoldsCommands
  <2> SUFFICES ASSUME IInv, RingInv PROVE RingHoldsCommands
    OBVIOUS
  <2>1. commands \in Seq(CommandTRB) /\ Unique(commands, events)
    BY DEF IInv, Good, QueuesOK
  <2>2. Len(commands) \in Nat /\ Len(commands) <= NumPorts BY <2>1, CommandsFit
  <2> QED BY <2>1, <2>2, Sizes, RingInvHolds
<1> QED BY <1>1, <1>2, <1>3, InitRingInv, PTL DEF RingSpec
=============================================================================
