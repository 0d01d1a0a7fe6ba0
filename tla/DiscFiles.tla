------------------------------ MODULE DiscFiles ------------------------------
(***************************************************************************)
(* The two sides of the disc: the resolution of a path (Xdvdfs) and the    *)
(* file calls over the one stream (FileIo).  A look-up shares nothing but  *)
(* the stream with the calls: SearchDirectory reads the table under        *)
(* fileMutex_ into a vector of its own and then searches that, which is    *)
(* one step of FileIo and all the steps of Xdvdfs.  No step of a search    *)
(* can meet a step of a call, and a behaviour follows the one or the other.*)
(***************************************************************************)
EXTENDS FileIo, Xdvdfs

VARIABLE half

discVars == <<vars, lookUpVars, half>>

\* The look-up that is over before the file calls begin: that of the one file.
HasLookedUp ==
    /\ root = <<1>> /\ sub = <<>> /\ subName = 0
    /\ path = <<1>> /\ part = 1 /\ phase = "done" /\ slot = 0 /\ current = 1
    /\ outcome = <<TRUE, 1, 1>>

DiscInit ==
    /\ Init
    /\ \/ half = "look-up" /\ LookUpInit
       \/ half = "calls" /\ HasLookedUp

LooksUp == half = "look-up" /\ LookUpNext /\ UNCHANGED <<vars, half>>
MakesCalls == half = "calls" /\ Next /\ UNCHANGED <<lookUpVars, half>>

DiscSpec == DiscInit /\ [][LooksUp \/ MakesCalls]_discVars /\ WF_discVars(LooksUp)
=============================================================================
