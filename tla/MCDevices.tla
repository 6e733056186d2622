------------------------------ MODULE MCDevices ------------------------------
(* TLC instance of the parts of the kernel around the process table that   *)
(* have no variable in common: the way of interrupts and the drivers that  *)
(* boot finds, the mouse, the network card and the desktop.  One of them   *)
(* moves, the others stay where they start, so that the run's states are   *)
(* the sum of theirs.                                                      *)
EXTENDS KernelMain, MouseDriver, NetworkCard, Desktop

VARIABLE part

Parts == {"boot", "mouse", "send", "receive", "desktop"}

-----------------------------------------------------------------------------
(* The machines: no card; one; a card with two functions behind a device   *)
(* that has others; a second function that is not looked at, two cards on  *)
(* one line, and one without ports.                                        *)
PciFunction(card, multi, ports, line) ==
  [card |-> card, multi |-> multi, ports |-> ports, line |-> line]

MCMachines ==
  {[p \in {} |-> {}],
   [p \in {<<0, 1, 0>>} |-> PciFunction(TRUE, FALSE, <<50, 0>>, 11)],
   [p \in {<<0, 0, 0>>, <<0, 1, 0>>, <<0, 1, 1>>} |->
      CASE p = <<0, 0, 0>> -> PciFunction(TRUE, FALSE, <<50, 0>>, 11)
        [] p = <<0, 1, 0>> -> PciFunction(FALSE, TRUE, <<70, 0>>, 5)
        [] p = <<0, 1, 1>> -> PciFunction(TRUE, TRUE, <<0, 60>>, 9)],
   [p \in {<<0, 0, 0>>, <<0, 0, 1>>, <<1, 0, 0>>} |->
      IF p = <<1, 0, 0>> THEN PciFunction(TRUE, FALSE, <<0, 0>>, 11)
                         ELSE PciFunction(TRUE, FALSE, <<50, 60>>, 11)]}

(* Short moves, moves as long as int8_t can count at the right edge and    *)
(* one longer, the longest; reports that press, release and exchange       *)
(* buttons.  Bit 3 of the first byte is always set.                        *)
MCReports == {<<9, 236, 12>>, <<10, 48, 244>>, <<11, 49, 128>>, <<8, 128, 127>>}

(* A frame that fits into one cell and one that is longer than allowed.    *)
MCCells == [frame \in Frames |-> IF frame = "short" THEN 1 ELSE 3]

(* Two windows that can cover each other on a small screen, and moves that *)
(* reach all of it and beyond its edges, one of them rounded.              *)
MCWindows ==
  <<[x |-> 0, y |-> 1, w |-> 2, h |-> 1], [x |-> 2, y |-> 0, w |-> 2, h |-> 2]>>
MCMoves == {<<-4, 0>>, <<4, 3>>, <<0, -5>>, <<8, 4>>}

-----------------------------------------------------------------------------
Init ==
  /\ part \in Parts
  /\ KernelInit /\ (part # "boot" => DOMAIN machine = {})
  /\ MouseInit  /\ (part # "mouse" => ~late)
  /\ CardInit /\ DesktopInit

(* While frames are sent, the handler, which touches nothing of Send's,    *)
(* does not run.  Once a call has taken a descriptor that was not free,    *)
(* nothing is claimed of Send any more, and all calls stop; the card goes  *)
(* on.  One of the two programs sends short frames only.                   *)
Sending ==
  \/ ~overrun /\ CardSends /\ UNCHANGED handler /\ senders'["q"].frame # {"long"}
  \/ Transmit

(* While frames are received, one short frame is sent, at any moment.      *)
Receiving ==
  \/ ActivateCard
  \/ CardInterrupt
  \/ Transmit
  \/ CardReceives
  \/ currentSendBuffer = 0 /\ senders["p"] = Outside /\ BeginSend("p", "short")
  \/ SendStep("p")

UsingCard == (part = "send" /\ Sending) \/ (part = "receive" /\ Receiving)

Next ==
  \/ /\ part = "boot" /\ KernelNext
     /\ UNCHANGED <<part, mouseVars, cardVars, desktopVars>>
  \/ /\ part = "mouse" /\ MouseNext
     /\ UNCHANGED <<part, kernelVars, cardVars, desktopVars>>
  \/ /\ UsingCard
     /\ UNCHANGED <<part, kernelVars, mouseVars, desktopVars>>
  \/ /\ part = "desktop" /\ DesktopNext
     /\ UNCHANGED <<part, kernelVars, mouseVars, cardVars>>

deviceVars == <<part, kernelVars, mouseVars, cardVars, desktopVars>>

(* The fairness of the parts' own specifications.                          *)
CardStep(step) == step /\ UNCHANGED <<part, kernelVars, mouseVars, desktopVars>>

DevicesSpec ==
  /\ Init /\ [][Next]_deviceVars
  /\ WF_deviceVars(part = "boot" /\ Processor
                   /\ UNCHANGED <<part, mouseVars, cardVars, desktopVars>>)
  /\ WF_deviceVars(part = "mouse" /\ HandleInterrupt
                   /\ UNCHANGED <<part, kernelVars, cardVars, desktopVars>>)
  /\ WF_deviceVars(CardStep(part = "receive" /\ CardInterrupt))
  /\ WF_deviceVars(CardStep(part \in {"send", "receive"} /\ Transmit))
  /\ \A p \in Senders :
       WF_deviceVars(CardStep(part \in {"send", "receive"} /\ ~overrun /\ SendStep(p)))
=============================================================================
