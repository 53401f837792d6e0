-------------------------------- MODULE Kms ---------------------------------
(***************************************************************************)
(* drm/kms: kms-universal-planes.c and kms-steal-crtc.c over the library   *)
(* libkms-test-*.c.  The library probes a card into three arrays; an       *)
(* object that cannot be created leaves a hole in its array but is not     *)
(* counted, and the programs go through the first num_... entries.  The    *)
(* connectors are of types that connector_names[] has.                     *)
(***************************************************************************)
EXTENDS Program

CONSTANTS KmsOptions,    \* option sets: subsets of {"v", "c", "o", "p"}
          KmsPlaneTypes, \* the types of the card's planes, a sequence
          KmsPipes       \* number of connectors, and of crtcs, of the card

ASSUME KmsAssumption ==
  /\ KmsOptions \subseteq SUBSET {"v", "c", "o", "p"}
  /\ KmsPlaneTypes \in Seq({"overlay", "primary", "cursor"})
  /\ KmsPipes \in Nat \ {0}

VARIABLES
  options,                 \* options of the run
  screens, crtcs, planes,  \* device->screens[], ->crtcs[], ->planes[]: Nil or an object
  chosen,                  \* index of the plane in use
  fbs,                     \* framebuffers that exist, by option
  drmFd                    \* the descriptor is open

kmsVars == <<options, screens, crtcs, planes, chosen, fbs, drmFd>>

KmsProgs == {"universal_planes", "steal_crtc"}
Nil == [type |-> "nil", formats |-> FALSE, crtc |-> FALSE]
Object == [type |-> "object", formats |-> FALSE, crtc |-> FALSE]
PlaneOf == [c |-> "cursor", o |-> "overlay", p |-> "primary"]
Blocks == DOMAIN PlaneOf

\* Where a block creates its framebuffer, and where it shows it.
CreateOf == [c |-> "create_c", o |-> "create_o", p |-> "create_p"]
ShowOf == [c |-> "show_c", o |-> "show_o", p |-> "show_p"]

KmsTypeOK ==
  /\ options \in KmsOptions \cup {{}}
  /\ screens \in [1..KmsPipes -> {Nil, Object}] /\ crtcs \in [1..KmsPipes -> {Nil, Object}]
  /\ planes \in [DOMAIN KmsPlaneTypes ->
                   [type : {"nil", "overlay", "primary", "cursor"},
                    formats : BOOLEAN, crtc : BOOLEAN]]
  /\ chosen \in {1} \cup DOMAIN KmsPlaneTypes
  /\ fbs \subseteq Blocks
  /\ drmFd \in BOOLEAN

KmsInit ==
  /\ options = {} /\ chosen = 1 /\ fbs = {}
  /\ screens = [i \in 1..KmsPipes |-> Nil] /\ crtcs = [i \in 1..KmsPipes |-> Nil]
  /\ planes = [i \in DOMAIN KmsPlaneTypes |-> Nil]
  /\ drmFd = FALSE

\* num_screens, num_crtcs, num_planes: the objects that were created.
Num(array) == Cardinality({i \in DOMAIN array : array[i] # Nil})

\* A loop over the counted entries meets a hole.
MeetsHole(array) == \E i \in 1..Num(array) : array[i] = Nil

Universal(l) == At("universal_planes", l)

-----------------------------------------------------------------------------
(* Opening and probing: kms_device_open().                                 *)

\* Options, open(), the client capability and the calloc() of the device.
KmsOpen ==
  /\ prog \in KmsProgs /\ pc = "start"
  /\ \/ options' \in (IF prog = "steal_crtc" THEN {{}} ELSE KmsOptions)
        /\ drmFd' = TRUE /\ Go("screens")
     \/ drmFd' \in BOOLEAN /\ Fail("exit") /\ UNCHANGED options
  /\ UNCHANGED <<screens, crtcs, planes, chosen, fbs>>

\* drmModeGetResources() or calloc() may fail as a whole, or single objects may.
Probed == [1..KmsPipes -> {Nil, Object}]

ProbeScreens ==
  /\ prog \in KmsProgs /\ pc = "screens"
  /\ screens' \in Probed
  /\ Go("crtcs")
  /\ UNCHANGED <<options, crtcs, planes, chosen, fbs, drmFd>>

ProbeCrtcs ==
  /\ prog \in KmsProgs /\ pc = "crtcs"
  /\ crtcs' \in Probed
  /\ Go("planes")
  /\ UNCHANGED <<options, screens, planes, chosen, fbs, drmFd>>

\* A plane whose kms_plane_probe() failed at its first call: no crtc, no formats, and
\* type 0, which is the overlay.
Bare == [type |-> "overlay", formats |-> FALSE, crtc |-> FALSE]

\* What kms_plane_create() makes of a plane of type t: it keeps an object whose
\* kms_plane_probe() failed half way.  Every plane can drive the first crtc.
PlaneResults(t) ==
  {Nil, Bare}
  \cup [type : {"overlay", t}, formats : BOOLEAN, crtc : {crtcs[1] # Nil}]

\* kms_plane_probe() looks the crtc up among the counted ones and meets the hole at
\* the first, if there is one.
ProbePlanes ==
  /\ prog \in KmsProgs /\ pc = "planes"
  /\ LET hole == crtcs[1] = Nil /\ Num(crtcs) > 0
     IN \/ hole /\ Go("fault") /\ UNCHANGED planes
        \/ /\ planes' \in [DOMAIN planes -> UNION {PlaneResults(t) : t \in {PlaneOf[k] : k \in Blocks}}]
           /\ \A i \in DOMAIN planes' :
                planes'[i] \in IF hole THEN {Nil, Bare} ELSE PlaneResults(KmsPlaneTypes[i])
           /\ Go(IF prog = "steal_crtc" THEN "steal" ELSE "verbose")
  /\ UNCHANGED <<options, screens, crtcs, chosen, fbs, drmFd>>

-----------------------------------------------------------------------------
(* kms-universal-planes.c.                                                 *)

\* The block after block k: the first option given among the ones that follow.
NextBlock(k) ==
  LET order == <<"c", "o", "p">>
      after == {i \in 1..3 : order[i] \in options /\ \A j \in 1..3 : order[j] = k => i > j}
  IN IF after = {} THEN "loop" ELSE order[CHOOSE i \in after : \A j \in after : i <= j]

\* -v prints every screen and plane.
Verbose ==
  /\ Universal("verbose")
  /\ IF "v" \in options /\ (\/ MeetsHole(screens) \/ MeetsHole(planes)
                            \/ \E i \in 1..Num(planes) : ~planes[i].crtc)
       THEN Go("fault")
       ELSE Go(NextBlock("v"))
  /\ UNCHANGED kmsVars

\* kms_device_find_plane_by_type() and choose_format().
FindPlane(k) ==
  /\ Universal(k)
  /\ LET counted == 1..Num(planes)
         match   == {i \in counted : planes[i].type = PlaneOf[k]}
         first   == CHOOSE i \in match : \A j \in match : i <= j
         hole    == \E i \in counted : planes[i] = Nil /\ \A j \in match : i < j
     IN IF hole THEN Go("fault") /\ UNCHANGED chosen
        ELSE IF match = {} THEN Fail("exit") /\ UNCHANGED chosen
        ELSE IF ~planes[first].formats THEN Fail("exit") /\ UNCHANGED chosen
        ELSE Go(CreateOf[k]) /\ chosen' = first
  /\ UNCHANGED <<options, screens, crtcs, planes, fbs, drmFd>>

\* kms_framebuffer_create() undoes what it did when it fails; prepare_framebuffer()
\* only prints when the mapping fails.
CreateFramebuffer(k) ==
  /\ Universal(CreateOf[k])
  /\ \/ fbs' = fbs \cup {k} /\ Go(ShowOf[k])
     \/ Fail("exit") /\ UNCHANGED fbs
  /\ UNCHANGED <<options, screens, crtcs, planes, chosen, drmFd>>

\* kms_screen_set() and kms_plane_set().  The overlay block sets the screen to root,
\* which is NULL there; the result of kms_plane_set() is not looked at.
Show(k) ==
  /\ Universal(ShowOf[k])
  /\ IF k = "o" \/ screens[1] = Nil \/ (k = "p" /\ crtcs[1] = Nil)
       THEN Go("fault")
       ELSE \/ Go(IF planes[chosen].crtc THEN NextBlock(k) ELSE "fault")
            \/ k = "p" /\ Fail("exit")
  /\ UNCHANGED kmsVars

\* select(): a key is pressed, or an error.
KeyPressed ==
  /\ Universal("loop")
  /\ Go("free")
  /\ UNCHANGED kmsVars

FreeOnly(these) ==
  /\ Universal("free")
  /\ fbs' = fbs \ these
  /\ Go("close")
  /\ UNCHANGED <<options, screens, crtcs, planes, chosen, drmFd>>

\* Mutant: root is not freed.
FreeFramebuffersNotRoot == FreeOnly({"c", "o"})

FreeFramebuffers == FreeOnly(Blocks)

\* kms_device_close() closes the descriptor, main() closes it once more.
KmsClose ==
  /\ prog \in KmsProgs /\ pc = "close"
  /\ drmFd' = FALSE
  /\ IF prog = "universal_planes" THEN Say("pass", "exit") ELSE Go("exit")
  /\ UNCHANGED <<options, screens, crtcs, planes, chosen, fbs>>

-----------------------------------------------------------------------------
\* kms-steal-crtc.c: the format it asks for, XRGB8888, is one that
\* kms_framebuffer_create() refuses, so that it gets no further than this.
StealCrtc ==
  /\ At("steal_crtc", "steal")
  /\ IF Num(screens) < 1 THEN Fail("close")
     ELSE IF screens[1] = Nil THEN Go("fault")
     ELSE Fail("exit")
  /\ UNCHANGED kmsVars

KmsProgram ==
  \/ KmsOpen \/ ProbeScreens \/ ProbeCrtcs \/ ProbePlanes
  \/ Verbose
  \/ \E k \in Blocks : FindPlane(k) \/ CreateFramebuffer(k) \/ Show(k)
  \/ FreeFramebuffers \/ KmsClose
  \/ StealCrtc

-----------------------------------------------------------------------------
(* Properties.                                                             *)

\* Every object of the card was created and every plane tied to a crtc.
Complete ==
  /\ Num(screens) = KmsPipes /\ Num(crtcs) = KmsPipes
  /\ \A i \in DOMAIN planes : planes[i] # Nil /\ planes[i].crtc

\* On a completely probed card the program faults only with -o, which it never
\* survives; the loop is reached with exactly the framebuffers that were asked for;
\* and they are all removed, over an open descriptor, before the device is closed.
KmsSound ==
  prog \in KmsProgs =>
    /\ pc = "fault" => ~Complete \/ "o" \in options
    /\ pc = "loop" => fbs = options \cap Blocks /\ "o" \notin options
    /\ said = "pass" => fbs = {}
    /\ fbs # {} => drmFd

=============================================================================
