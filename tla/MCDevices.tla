----------------------------- MODULE MCDevices ------------------------------
(***************************************************************************)
(* Instances, for TLC, of the device drivers that interrupts complete: the *)
(* serial port with the input buffer, and one channel of the disk          *)
(* controller.  A behaviour exercises one; the other's variables keep      *)
(* their first values.                                                     *)
(***************************************************************************)
EXTENDS Serial

CONSTANTS d1, d2, s1, s2, v0, v1

VARIABLES
  unit,
  holder, expecting_interrupt, completion_wait, pc, op, sec_no, buffer, dev, dev_sector,
  dev_data, irq, content, sent, spurious     \* Disk

disk == INSTANCE Disk WITH
  Thread <- {d1, d2}, Sector <- {s1, s2}, Value <- {v0, v1}, MaxSpurious <- 1

diskVars ==
  <<holder, expecting_interrupt, completion_wait, pc, op, sec_no, buffer, dev, dev_sector,
    dev_data, irq, content, sent, spurious>>
deviceVars == <<unit, vars, diskVars>>

DevicesInit == unit \in {"serial", "disk"} /\ SerialInit /\ disk!Init

serial(A) == unit = "serial" /\ A /\ UNCHANGED <<unit, diskVars>>
ata(A) == unit = "disk" /\ A /\ UNCHANGED <<unit, vars>>

DevicesNext == serial(Next) \/ ata(disk!Next)

(* The fairness of Serial's FairSpec, and of Disk's.                       *)
DevicesSpec ==
  /\ DevicesInit /\ [][DevicesNext]_deviceVars
  /\ WF_deviceVars(serial(UartSends))
  /\ WF_deviceVars(serial(init_write_ier))
  /\ WF_deviceVars(serial(cpu = "putc" /\ putc_intr_off))
  /\ WF_deviceVars(serial(cpu = "flush" /\ serial_flush))
  /\ WF_deviceVars(serial(intr_recv)) /\ WF_deviceVars(serial(intr_xmit))
  /\ SF_deviceVars(serial(serial_interrupt))
  /\ \A t \in Writer : SF_deviceVars(serial(tx_pc[t] = "woken" /\ serial_putc(t)))
  /\ \A t \in Reader : SF_deviceVars(serial(rx_pc[t] = "woken" /\ input_getc(t)))
  /\ WF_deviceVars(ata(disk!DiskReady)) /\ WF_deviceVars(ata(disk!DiskAccepts))
  /\ WF_deviceVars(ata(disk!DiskStored)) /\ WF_deviceVars(ata(disk!interrupt_handler))
  /\ \A t \in {d1, d2} :
       WF_deviceVars(ata(disk!Step(t))) /\ WF_deviceVars(ata(disk!lock_acquire(t)))

-----------------------------------------------------------------------------
(* No completion of one disk command is taken for another's (Disk).        *)
NoStaleCompletion == disk!NoStaleCompletion

(* A read returns what was last sent to the sector (Disk).                 *)
ReadsLatest == disk!ReadsLatest

(* A disk_read() or disk_write() that has the channel returns, and the     *)
(* channel is not left unused while a call waits (Disk).                   *)
DiskReturns == disk!DiskReturns
=============================================================================
