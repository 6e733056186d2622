---------------------------- MODULE PciController -----------------------------
(***************************************************************************)
(* PeripheralComponentInterconnectController::SelectDrivers                *)
(* (src/src/hardwarecommunication/pci.cpp): every function of every device *)
(* on every bus is looked at, and a driver is made for each network card.  *)
(*                                                                         *)
(* The machine is external.  A function is [card, multi, ports, line]:     *)
(* whether it is an am79c973, the bit that says there are more functions,  *)
(* what its base address registers hold (the address of an I/O port, 0     *)
(* for anything else) and the interrupt line it was given, a byte.         *)
(***************************************************************************)
EXTENDS Naturals, Sequences, FiniteSets, Functions

CONSTANTS
  Buses, Devices, Functions,   \* 8, 32 and 8
  Machines,                    \* what there may be, by <<bus, device, function>>
  Garbage                      \* an address that is none of theirs

Places == (0 .. Buses - 1) \X (0 .. Devices - 1) \X (0 .. Functions - 1)

ASSUME MachineAssumption ==
  /\ Buses \in Nat \ {0} /\ Devices \in Nat \ {0} /\ Functions \in Nat \ {0}
  /\ \A m \in Machines :
       /\ DOMAIN m \subseteq Places
       /\ \A p \in DOMAIN m : m[p].line \in 0 .. 255 /\ m[p].ports \in Seq(Nat)

VARIABLES
  machine,    \* what there is
  place,      \* where the scan is, <<>> when it is over
  portBase,   \* what the stack holds where the next descriptor will be
  drivers,    \* DriverManager's drivers, those of the cards
  refused     \* history: cards for whose driver there was no memory

pciVars == <<machine, place, portBase, drivers, refused>>

PciInit ==
  /\ machine \in Machines
  /\ place = <<0, 0, 0>>
  /\ portBase = Garbage
  /\ drivers = <<>> /\ refused = {}

-----------------------------------------------------------------------------
(* DeviceHasFunctions; where there is no device all bits read as 1.        *)
OnlyFirst(bus, device) == 1                      \* mutant: no others looked at
NumFunctions(bus, device) ==
  IF <<bus, device, 0>> \in DOMAIN machine => machine[<<bus, device, 0>>].multi
  THEN Functions ELSE 1

NextPlace(p) ==
  CASE p[3] + 1 < NumFunctions(p[1], p[2]) -> <<p[1], p[2], p[3] + 1>>
    [] p[3] + 1 >= NumFunctions(p[1], p[2]) /\ p[2] + 1 < Devices -> <<p[1], p[2] + 1, 0>>
    [] OTHER -> IF p[1] + 1 < Buses THEN <<p[1] + 1, 0, 0>> ELSE <<>>

(* The loop over the registers: the last port there is.  Without one the   *)
(* descriptor, which nobody initialises, keeps what was on the stack.      *)
PortRegisters(ports) == {i \in DOMAIN ports : ports[i] # 0}

Ports(p) == Range(machine[p].ports) \ {0}

PortBases(ports) ==
  IF PortRegisters(ports) = {} THEN {portBase, Garbage}
  ELSE {ports[CHOOSE i \in PortRegisters(ports) :
                \A j \in PortRegisters(ports) : j <= i]}

(* Of what is not a card some registers do not exist and are not           *)
(* initialised either.                                                     *)
Leftovers == {portBase, Garbage} \cup
             UNION {Ports(p) : p \in {place} \cap DOMAIN machine}

(* GetDriver makes the driver, unless there is no memory for it.           *)
NoDriver(p) == UNCHANGED <<drivers, refused>>

NewDriver(p) ==
  /\ drivers' = Append(drivers, [at |-> p, port |-> portBase', line |-> machine[p].line])
  /\ UNCHANGED refused

NoMemory(p) == refused' = refused \cup {p} /\ UNCHANGED drivers

(* Nothing there, something else there, a card there.                      *)
Nothing == place # <<>> /\ place \notin DOMAIN machine
Other   == place \in DOMAIN machine /\ ~machine[place].card
Card    == place \in DOMAIN machine /\ machine[place].card

Look(found) ==
  /\ found
  /\ portBase' \in IF Card THEN PortBases(machine[place].ports) ELSE Leftovers
  /\ place' = NextPlace(place)
  /\ UNCHANGED machine

Skip     == Look(Nothing \/ Other) /\ NoDriver(place)
AddCard  == Look(Card) /\ NewDriver(place)
LoseCard == Look(Card) /\ NoMemory(place)

-----------------------------------------------------------------------------
(* Properties                                                              *)

(* A card the scan can get to: one that is the first function of a device, *)
(* or another of a device that says it has several.                        *)
Reachable ==
  {p \in DOMAIN machine :
     /\ machine[p].card
     /\ p[3] = 0 \/ (<<p[1], p[2], 0>> \in DOMAIN machine => machine[<<p[1], p[2], 0>>].multi)}

Before(p, q) ==
  \/ p[1] < q[1]
  \/ p[1] = q[1] /\ (p[2] < q[2] \/ (p[2] = q[2] /\ p[3] < q[3]))

(* In the end each card that can be reached has had one driver made for    *)
(* it, in the order of the bus, and the driver talks to the ports of its   *)
(* own card if that has any.                                               *)
DriversFitTheirCards ==
  /\ \A i \in DOMAIN drivers :
       LET p == drivers[i].at
       IN  /\ \A j \in 1 .. i - 1 : Before(drivers[j].at, p)
           /\ Ports(p) # {} => drivers[i].port \in Ports(p)
  /\ place = <<>> =>
       {drivers[i].at : i \in DOMAIN drivers} = Reachable \ refused
=============================================================================
