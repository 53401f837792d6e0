----------------------------- MODULE MC_UsbHost -----------------------------
(* Instance of the two USB host programs for TLC.  They share nothing but the *)
(* port, so a behaviour has one of them: usbh_uvc or testusb.                 *)
EXTENDS UvcCapture, TestUsb

hostVars == <<vars, usbVars>>

Uvc(A) == A /\ mpc = "opts" /\ plugged = Devices /\ UNCHANGED usbVars
Usb(A) == A /\ pc = "init" /\ ~gone /\ UNCHANGED vars

HostInit == Init /\ UsbInit

HostNext == Uvc(Next) \/ Usb(UsbNext)

HostFairSpec ==
  /\ HostInit
  /\ [][HostNext]_hostVars
  /\ WF_hostVars(Uvc(Program))
  /\ WF_hostVars(Usb(MainStep))
  /\ \A d \in Devices : WF_hostVars(Usb(Worker(d)))

=============================================================================
