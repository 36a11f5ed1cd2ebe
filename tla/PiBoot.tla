------------------------------- MODULE PiBoot -------------------------------
(***************************************************************************)
(* Network boot of Raspberry Pis: the directories PiManager and            *)
(* PiDiscoveryManager keep for the TFTP server                             *)
(* (src/src/pxe/pi_manager.py), the path resolution of TFTPHandler, and    *)
(* the requests that register, boot and retire a Pi                        *)
(* (src/src/api/routes/boot_pi.py, nodes.py).  A directory is changed in   *)
(* the middle of a request, file by file, and is not part of its           *)
(* transaction; what serves it is in the same event loop and sees no       *)
(* directory that is being changed, except after a stop.                   *)
(***************************************************************************)
EXTENDS Naturals, Sequences, FiniteSets

CONSTANTS
    Serials,        \* Pis, by serial number
    Hardware,       \* the model each Pi really is
    Installed,      \* the firmware, device trees and deploy files there are
    NodesDirIsRoot, \* pi.nodes_dir is the TFTP root; by default it is a directory in it
    AutoRegisterPi  \* settings.registration.auto_register

VARIABLES
    startup,   \* how far the controller's start is
    disc,      \* the discovery directory
    piRow,     \* the nodes table: pi_model and whether the node is retired
    piDir,     \* the node directories
    pi,        \* the Pis: how far a network boot is
    spoiled    \* history: retired, failed to write or cut short in an update since
               \* its directory was last made

piVars == <<startup, disc, piRow, piDir, pi, spoiled>>

-----------------------------------------------------------------------------
\* PI_MODELS
FirmwareFiles ==
    [ m \in {"pi3", "pi3b+", "cm3", "pi4", "pi5"} |->
        IF m \in {"pi4", "pi5"} THEN << <<"fw", "start4.elf">>, <<"fw", "fixup4.dat">> >>
        ELSE << <<"fw", "bootcode.bin">>, <<"fw", "start.elf">>, <<"fw", "fixup.dat">> >> ]

Models == DOMAIN FirmwareFiles

\* A device tree is named by the model it is for.
Dtb == [ m \in Models |-> <<"dtb", m>> ]

DeployFiles == << <<"deploy", "kernel8.img">>, <<"deploy", "initramfs.img">> >>

\* What create_node_directory links for a model, in its order, and the first
\* k of it.
LinkOrder(m) == FirmwareFiles[m] \o <<Dtb[m]>> \o DeployFiles
Linked(m, k) == {LinkOrder(m)[i] : i \in 1 .. k}
Links(m) == Linked(m, Len(LinkOrder(m)))

AllLinks == UNION {Links(m) : m \in Models}

ASSUME PiAssumption ==
    /\ Hardware \in [Serials -> Models]
    /\ NodesDirIsRoot \in BOOLEAN /\ AutoRegisterPi \in BOOLEAN

NoPi == [model |-> "none", retired |-> FALSE]

\* A node directory: whether it exists, its links, the model of its config.txt
\* ("none" when that is missing or cut short) and whether it has a cmdline.txt.
NoDir == [made |-> FALSE, links |-> {}, config |-> "none", cmdline |-> FALSE]

\* mkdir and the first k links: what is there already stays, and a file that
\* is not installed is not linked.
LinksMade(dir, m, k) ==
    [dir EXCEPT !.made = TRUE, !.links = @ \union (Linked(m, k) \intersect Installed)]

\* create_node_directory, and the directories it can be cut short at.
CreateNodeDirectory(dir, m) ==
    [LinksMade(dir, m, Len(LinkOrder(m))) EXCEPT !.config = m, !.cmdline = TRUE]

\* update_config_txt and update_cmdline_txt: config.txt names another device
\* tree, and nothing is linked.
UpdateConfigTxt(dir, m) == [dir EXCEPT !.config = m, !.cmdline = TRUE]

\* write_text empties a file before it writes it.
HalfUpdated(dir, m) ==
    {dir, [dir EXCEPT !.config = "none"],
     [dir EXCEPT !.config = m], [dir EXCEPT !.config = m, !.cmdline = FALSE]}

HalfCreated(dir, m) ==
    {dir} \union {LinksMade(dir, m, k) : k \in 0 .. Len(LinkOrder(m))}
          \union HalfUpdated(LinksMade(dir, m, Len(LinkOrder(m))), m)

\* rmtree removes the entries in no particular order, and the directory last.
HalfDeleted(dir) ==
    {dir} \union [ made : {dir.made}, links : SUBSET dir.links,
                   config : {dir.config, "none"}, cmdline : {dir.cmdline, FALSE} ]

\* _resolve_path for a boot file of a Pi: the node's own directory, which is
\* looked up under the TFTP root, or the discovery directory.
Resolves(s) ==
    IF piDir[s].made
    THEN IF NodesDirIsRoot THEN "node" ELSE "nowhere"
    ELSE "discovery"

-----------------------------------------------------------------------------
PiInit ==
    /\ startup = "starting"
    /\ disc = "absent"
    /\ piRow = [s \in Serials |-> NoPi]
    /\ piDir = [s \in Serials |-> NoDir]
    /\ pi = [s \in Serials |-> [step |-> "off", config |-> "none", mode |-> "none"]]
    /\ spoiled = [s \in Serials |-> FALSE]

\* lifespan, ensure_discovery_directory: a directory that exists is taken to
\* be complete.
EnsureDiscoveryDirectory ==
    /\ startup = "starting"
    /\ IF disc = "absent"
       THEN disc' = "made" /\ startup' = "filling"
       ELSE UNCHANGED disc /\ startup' = "ready"
    /\ UNCHANGED <<piRow, piDir, pi, spoiled>>

\* Its cmdline.txt, which makes a boot one into discovery, is written last.
FillDiscoveryDirectory ==
    /\ startup = "filling"
    /\ disc' = "full"
    /\ startup' = "ready"
    /\ UNCHANGED <<piRow, piDir, pi, spoiled>>

ControllerCrash ==
    /\ startup # "starting"
    /\ startup' = "starting"
    /\ UNCHANGED <<disc, piRow, piDir, pi, spoiled>>

-----------------------------------------------------------------------------
(* A network boot: configuration, firmware and device tree, command line,   *)
(* each a TFTP request that is resolved anew.                               *)

PiGoes(s, step, config, mode) ==
    /\ pi' = [pi EXCEPT ![s] = [step |-> step, config |-> config, mode |-> mode]]
    /\ UNCHANGED <<startup, disc, piRow, piDir, spoiled>>

FetchConfig(s) ==
    /\ startup = "ready" /\ pi[s].step = "off"
    /\ CASE Resolves(s) = "node" /\ piDir[s].config # "none" ->
              PiGoes(s, "links", piDir[s].config, "none")
         [] Resolves(s) = "discovery" /\ disc = "full" ->
              PiGoes(s, "links", "discovery", "none")
         [] OTHER -> PiGoes(s, "stuck", "none", "none")

\* The firmware and the deploy files, and the device tree config.txt names, or
\* that of the hardware.
NeededLinks(s) ==
    (Links(Hardware[s]) \ {Dtb[Hardware[s]]})
    \union {Dtb[IF pi[s].config \in Models THEN pi[s].config ELSE Hardware[s]]}

FetchLinks(s) ==
    /\ startup = "ready" /\ pi[s].step = "links"
    /\ IF \/ Resolves(s) = "node" /\ NeededLinks(s) \subseteq piDir[s].links
          \/ Resolves(s) = "discovery" /\ disc = "full" /\ NeededLinks(s) \subseteq Installed
       THEN PiGoes(s, "cmdline", pi[s].config, "none")
       ELSE PiGoes(s, "stuck", "none", "none")

FetchCmdline(s) ==
    /\ startup = "ready" /\ pi[s].step = "cmdline"
    /\ CASE Resolves(s) = "node" /\ piDir[s].cmdline ->
              PiGoes(s, "deploy", pi[s].config, "normal")
         [] Resolves(s) = "discovery" /\ disc = "full" ->
              PiGoes(s, "deploy", pi[s].config, "discovery")
         [] OTHER -> PiGoes(s, "stuck", "none", "none")

\* The Pi is reset, or its firmware starts over.
PowerCycle(s) ==
    /\ pi[s].step \in {"deploy", "stuck"}
    /\ PiGoes(s, "off", "none", "none")

-----------------------------------------------------------------------------
(* Requests.  The directory changes file by file and is not part of the     *)
(* transaction; the row changes when the request commits.                   *)

Writes(s, row, dir, committed) ==
    /\ piRow' = IF committed THEN [piRow EXCEPT ![s] = row] ELSE piRow
    /\ piDir' = [piDir EXCEPT ![s] = dir]
    /\ UNCHANGED <<disc, pi>>

\* The files are all written, and the commit succeeds or not.
Finishes(s, row, dir, spoils) ==
    /\ \E committed \in BOOLEAN : Writes(s, row, dir, committed)
    /\ spoiled' = [spoiled EXCEPT ![s] = spoils]
    /\ UNCHANGED startup

\* The controller stops halfway.
Stops(s, row, dir, spoils) ==
    /\ Writes(s, row, dir, FALSE)
    /\ spoiled' = [spoiled EXCEPT ![s] = @ \/ spoils]
    /\ startup' = "starting"

\* An error of the file system is logged, and the request goes on.
Swallows(s, row, dir) ==
    /\ \E committed \in BOOLEAN : Writes(s, row, dir, committed)
    /\ spoiled' = [spoiled EXCEPT ![s] = TRUE]
    /\ UNCHANGED startup

\* Mutation: the row is committed before the directory is made.
CreatesAfterCommit(s, row, m) ==
    \/ Finishes(s, row, CreateNodeDirectory(piDir[s], m), FALSE)
    \/ \E dir \in HalfCreated(piDir[s], m) :
          /\ Writes(s, row, dir, TRUE)
          /\ startup' = "starting" /\ UNCHANGED spoiled

\* A node directory is made, completed or made again.
Creates(s, row, m) ==
    \/ Finishes(s, row, CreateNodeDirectory(piDir[s], m), FALSE)
    \/ \E dir \in HalfCreated(piDir[s], m) : Stops(s, row, dir, FALSE) \/ Swallows(s, row, dir)

Updates(s, row, m) ==
    \/ Finishes(s, row, UpdateConfigTxt(piDir[s], m), spoiled[s])
    \/ \E dir \in HalfUpdated(piDir[s], m) : Stops(s, row, dir, TRUE) \/ Swallows(s, row, dir)

\* get_pi_boot_instructions registers an unknown Pi as a pi4.
GetPiBootInstructions(s) ==
    /\ startup = "ready" /\ pi[s].step = "deploy"
    /\ piRow[s] = NoPi
    /\ pi[s].mode = "discovery" \/ AutoRegisterPi
    /\ Creates(s, [model |-> "pi4", retired |-> FALSE], "pi4")

\* register_pi_node, by the deploy environment of the Pi.
RegisterPiNode(s) ==
    LET m == Hardware[s]
        row == [piRow[s] EXCEPT !.model = m]
    IN
    /\ startup = "ready" /\ pi[s].step = "deploy"
    /\ IF piRow[s] # NoPi /\ piDir[s].made THEN Updates(s, row, m) ELSE Creates(s, row, m)

\* retire_node, delete_node_directory
RetirePi(s) ==
    LET row == [piRow[s] EXCEPT !.retired = TRUE] IN
    /\ startup = "ready"
    /\ piRow[s] # NoPi /\ ~piRow[s].retired
    /\ \/ Finishes(s, row, NoDir, TRUE)
       \/ \E dir \in HalfDeleted(piDir[s]) : Stops(s, row, dir, TRUE) \/ Swallows(s, row, dir)

Starts == EnsureDiscoveryDirectory \/ FillDiscoveryDirectory
Fetches(s) == FetchConfig(s) \/ FetchLinks(s) \/ FetchCmdline(s)

PiStep(s) ==
    \/ Fetches(s) \/ PowerCycle(s)
    \/ GetPiBootInstructions(s) \/ RegisterPiNode(s) \/ RetirePi(s)

PiNext ==
    \/ Starts \/ ControllerCrash
    \/ \E s \in Serials : PiStep(s)

PiSpec == PiInit /\ [][PiNext]_piVars

-----------------------------------------------------------------------------
(* Properties                                                               *)

\* Every variable has its type.
PiTypeOK ==
    /\ startup \in {"starting", "filling", "ready"}
    /\ disc \in {"absent", "made", "full"}
    /\ piRow \in [Serials -> [model : Models \union {"none"}, retired : BOOLEAN]]
    /\ piDir \in [Serials -> [made : BOOLEAN, links : SUBSET AllLinks,
                              config : Models \union {"none"}, cmdline : BOOLEAN]]
    /\ pi \in [Serials ->
                 [step : {"off", "links", "cmdline", "deploy", "stuck"},
                  config : Models \union {"none", "discovery"},
                  mode : {"none", "normal", "discovery"}]]
    /\ spoiled \in [Serials -> BOOLEAN]

\* The directory has a config.txt, a cmdline.txt and whatever is installed of
\* the files of a model.
WholeFor(dir, m) ==
    dir.config # "none" /\ dir.cmdline /\ Links(m) \intersect Installed \subseteq dir.links

\* A Pi with a row has a whole directory: the row commits after the last file
\* is written, so that a stop of the controller or a failed commit at any file
\* of a registration leaves at most a directory without a row, and the next
\* registration completes it.  Not so after a retirement, an error of the file
\* system, which the code logs and goes on, or a stop in an update, until the
\* directory is made again.
RegisteredIsWhole ==
    /\ PiTypeOK
    /\ \A s \in Serials :
          piRow[s] # NoPi /\ ~spoiled[s] => \E m \in {"pi4", Hardware[s]} : WholeFor(piDir[s], m)
=============================================================================
