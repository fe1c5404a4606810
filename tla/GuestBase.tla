----------------------------- MODULE GuestBase -----------------------------
(***************************************************************************)
(* How the base of a Linux virtual root is built: the cloud image becomes  *)
(* a partition, the partition a tree, the tree gets a kernel and an agent  *)
(* and is packed into the disk image that sessions boot; then the image is *)
(* booted once to install the runtimes that guest.yaml declares.           *)
(*                                                                         *)
(* Each step leaves something on disk that the next run of the chain takes *)
(* as it finds it, so the chain may stop, by an error or a crash, anywhere.*)
(***************************************************************************)
EXTENDS Naturals, FiniteSets

CONSTANT MaxRuns   \* bound: how often the two entries are ensured

VARIABLES
  partition,  \* rootfs.ext4 of the cache: dd writes it in place
  tree,       \* the directory tree: what has been put into it
  image,      \* rootfs.ext4 of the virtual root: what is in it
  yaml,       \* guest.yaml: absent, or the runtimes it declares
  marks,      \* .qga-ready and .runtimes-ready
  restore,    \* the attributes this run has to restore
  step,       \* the step of the chain that is next
  runs        \* how often an entry was ensured

vars == <<partition, tree, image, yaml, marks, restore, step, runs>>

(***************************************************************************)
(* "first" and "rest" are the two halves of the files; "first" is the half *)
(* with etc/os-release.  "attrs" are the owners and special bits that      *)
(* unpacking and packing lose; "nested" an older image packed inside.      *)
(***************************************************************************)
Files == {"first", "rest"}
Tools == {"runtimes"}
Parts == Files \union Tools \union {"kernel", "agent", "initrd", "attrs", "nested"}
NoImage == {"none"}

Init ==
  /\ partition = {} /\ tree = {} /\ image = NoImage
  /\ yaml = "none" /\ marks = {} /\ restore = {}
  /\ step = "idle" /\ runs = 0

Then(s) == step' = s

(***************************************************************************)
(* run: either entry, whatever is on disk already.  A runtime that was     *)
(* proven is not installed again unless the user names it.                 *)
(***************************************************************************)
EnsureRootfs ==
  /\ step = "idle" /\ runs < MaxRuns
  /\ runs' = runs + 1
  /\ Then("carve")
  /\ UNCHANGED <<partition, tree, image, yaml, marks, restore>>

EnsureRuntime(named) ==
  /\ step = "idle" /\ runs < MaxRuns
  /\ image # NoImage
  /\ named \/ "runtimes-ready" \notin marks
  /\ runs' = runs + 1
  /\ Then("boot")
  /\ UNCHANGED <<partition, tree, image, yaml, marks, restore>>

\* dd, into the file the next run takes for a finished one.
Carve ==
  /\ step = "carve"
  /\ IF partition = {}
       THEN partition' = {"first"} /\ Then("carving")
       ELSE UNCHANGED partition /\ Then("clear")
  /\ UNCHANGED <<tree, image, yaml, marks, restore, runs>>

Carved ==
  /\ step = "carving"
  /\ partition' = Files
  /\ Then("clear")
  /\ UNCHANGED <<tree, image, yaml, marks, restore, runs>>

ClearImageLater ==      \* mutant: the old image stays until the new one is renamed
  /\ step = "clear"
  /\ Then("extract")
  /\ UNCHANGED <<partition, tree, image, yaml, marks, restore, runs>>

\* The image of the last time goes first, or it would be packed into the new one.
ClearImage ==
  /\ step = "clear"
  /\ image' = NoImage
  /\ Then("extract")
  /\ UNCHANGED <<partition, tree, yaml, marks, restore, runs>>

(***************************************************************************)
(* rdump, unless etc/os-release is there; then the attributes of what the  *)
(* tree holds are read from the partition.                                 *)
(***************************************************************************)
Extract ==
  /\ step = "extract"
  /\ IF "first" \in tree
       THEN UNCHANGED tree /\ Then("attrs")
       ELSE tree' = tree \union (partition \intersect {"first"}) /\ Then("extracting")
  /\ UNCHANGED <<partition, image, yaml, marks, restore, runs>>

Extracted ==
  /\ step = "extracting"
  /\ tree' = tree \union partition
  /\ Then("attrs")
  /\ UNCHANGED <<partition, image, yaml, marks, restore, runs>>

ReadAttrs ==
  /\ step = "attrs"
  /\ restore' = {"attrs"}
  /\ Then("kernel")
  /\ UNCHANGED <<partition, tree, image, yaml, marks, runs>>

(***************************************************************************)
(* ensure_guest_kernel, ensure_guest_qga, ensure_guest_initrd: what is in  *)
(* the tree already stays; the initrd is made for the kernel found.        *)
(***************************************************************************)
Furnish(s, thing, next) ==
  /\ step = s
  /\ tree' = tree \union {thing}
  /\ Then(next)
  /\ UNCHANGED <<partition, image, yaml, marks, restore, runs>>

WriteYaml ==
  /\ step = "yaml"
  /\ yaml' = IF yaml = "none" THEN "bare" ELSE yaml
  /\ Then("pack")
  /\ UNCHANGED <<partition, tree, image, marks, restore, runs>>

(***************************************************************************)
(* pack_guest_base: mke2fs writes a file of the cache, which is renamed;   *)
(* then everything but the image, the kernel and guest.yaml goes, in an    *)
(* order the file system chooses.                                          *)
(***************************************************************************)
Pack ==
  /\ step = "pack"
  /\ image' = tree \union (IF image = NoImage THEN {} ELSE {"nested"})
  /\ Then("purge")
  /\ UNCHANGED <<partition, tree, yaml, marks, restore, runs>>

Purge ==
  /\ step = "purge"
  /\ IF tree = {} /\ marks = {}
       THEN UNCHANGED <<tree, marks>> /\ Then("restore")
       ELSE /\ \/ \E f \in tree : tree' = tree \ {f} /\ UNCHANGED marks
               \/ \E m \in marks : marks' = marks \ {m} /\ UNCHANGED tree
            /\ Then("purge")
  /\ UNCHANGED <<partition, image, yaml, restore, runs>>

\* restore_guest_image_attrs, then .qga-ready: the agent is in the image.
RestoreAttrs ==
  /\ step = "restore"
  /\ image' = image \union restore
  /\ Then("agreed")
  /\ UNCHANGED <<partition, tree, yaml, marks, restore, runs>>

MarkAgent ==
  /\ step = "agreed"
  /\ marks' = marks \union {"qga-ready"}
  /\ restore' = {}
  /\ Then("idle")
  /\ UNCHANGED <<partition, tree, image, yaml, runs>>

(***************************************************************************)
(* install_guest_runtime: the guest is booted on the image itself, tools   *)
(* are installed and tried; only if all of them work is that written down. *)
(***************************************************************************)
Boot ==
  /\ step = "boot"
  /\ {"kernel", "agent"} \subseteq image
  /\ image' = image \union Tools
  /\ Then("proven")
  /\ UNCHANGED <<partition, tree, yaml, marks, restore, runs>>

DeclareRuntimes ==
  /\ step = "proven"
  /\ yaml' = "proven"
  /\ Then("declared")
  /\ UNCHANGED <<partition, tree, image, marks, restore, runs>>

MarkRuntimes ==
  /\ step = "declared"
  /\ marks' = marks \union {"runtimes-ready", "qga-ready"}
  /\ Then("idle")
  /\ UNCHANGED <<partition, tree, image, yaml, restore, runs>>

(***************************************************************************)
(* A tool fails, the network is down, the guest does not answer, or the    *)
(* process dies: in every case the disk stays as it is.                    *)
(***************************************************************************)
Stops ==
  /\ step # "idle"
  /\ restore' = {}
  /\ Then("idle")
  /\ UNCHANGED <<partition, tree, image, yaml, marks, runs>>

Build ==
  \/ Carve \/ Carved \/ ClearImage \/ Extract \/ Extracted \/ ReadAttrs
  \/ Furnish("kernel", "kernel", "agent")
  \/ Furnish("agent", "agent", "initrd")
  \/ Furnish("initrd", "initrd", "yaml")
  \/ WriteYaml \/ Pack \/ Purge \/ RestoreAttrs \/ MarkAgent
  \/ Boot \/ DeclareRuntimes \/ MarkRuntimes

Next ==
  \/ EnsureRootfs \/ (\E named \in BOOLEAN : EnsureRuntime(named))
  \/ Build \/ Stops

Spec == Init /\ [][Next]_vars

-----------------------------------------------------------------------------
TypeOK ==
  /\ partition \subseteq Files /\ tree \subseteq Parts
  /\ image = NoImage \/ image \subseteq Parts
  /\ yaml \in {"none", "bare", "proven"}
  /\ marks \subseteq {"qga-ready", "runtimes-ready"}

(***************************************************************************)
(* Sessions boot whatever is named rootfs.ext4.  Wherever the chain broke  *)
(* off and was taken up again, that image has the kernel with its initrd   *)
(* and the agent in it, and no older image packed inside.                  *)
(***************************************************************************)
ImageBoots ==
  image # NoImage =>
    /\ {"kernel", "agent", "initrd"} \subseteq image
    /\ "nested" \notin image

(***************************************************************************)
(* install_guest_runtime: only what was proven is declared.                *)
(***************************************************************************)
DeclaredIsThere == yaml = "proven" /\ image # NoImage => Tools \subseteq image
=============================================================================
