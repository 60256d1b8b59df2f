---------------------------- MODULE PqiiSnapshot ----------------------------
(***************************************************************************)
(* savevm and loadvm of a machine with the pqii device                     *)
(* (src/qemu/hw/misc/pqii.c, vmstate_pqii and pqii_post_load).             *)
(*                                                                         *)
(* A snapshot holds guest RAM and, of the device, what vmstate_pqii lists: *)
(* only VMSTATE_PCI_DEVICE, the PCI config space.  status, fact,           *)
(* irq_status, dma and the worker are not in it, and the class has no      *)
(* reset handler, so loadvm leaves them as the running device has them.    *)
(* Of guest RAM the model keeps what the guest knows of the device: the    *)
(* operand it last wrote to 0x08 (submitted).  The post_load hook clears   *)
(* g_pqii_data.status, which is the plugin's and modelled in BranchPlugin. *)
(***************************************************************************)
EXTENDS PqiiDevice

CONSTANT MaxVmOps   \* bound on savevm and loadvm commands

VARIABLES
  snap,    \* the guest's submitted operand in the saved snapshot, or NONE
  vmops    \* number of savevm and loadvm commands

vmVars == <<snap, vmops>>

VmOp == dev = "running" /\ vmops < MaxVmOps /\ vmops' = vmops + 1

(* savevm: guest RAM is saved, and of pqii the fields of vmstate_pqii.   *)
Save ==
  /\ VmOp
  /\ snap' = submitted
  /\ UNCHANGED vars

(* loadvm: guest RAM comes back from the snapshot; vmstate_pqii restores *)
(* only the PCI config, so every register and the worker stay as they    *)
(* are.                                                                    *)
Load ==
  /\ VmOp
  /\ snap # NONE
  /\ submitted' = snap
  /\ UNCHANGED <<status, fact, irq_status, line, dma, armed, stopping, tpc, tval,
                 dev, latched, xfers, writes, snap>>

VmInit == Init /\ snap = NONE /\ vmops = 0

VmNext == (Next /\ UNCHANGED vmVars) \/ Save \/ Load

VmSpec == VmInit /\ [][VmNext]_<<vars, vmVars>>
=============================================================================
