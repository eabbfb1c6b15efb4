----------------------------- MODULE CliSession -----------------------------
(***************************************************************************)
(* The serial console: api-hal-vcp.c (a USB serial port seen as a stream   *)
(* buffer for input and a semaphore for output), CDC_Transmit_FS of        *)
(* usbd_cdc_if.c, and the thread of applications/cli/cli.c that reads a    *)
(* character, answers and runs commands.  The USB callbacks run in an      *)
(* interrupt, each in one step.  A character is text, a carriage return,   *)
(* an ETX, or one of the SOH and EOT with which the port tells the CLI     *)
(* that the terminal was opened and closed.                                *)
(***************************************************************************)
EXTENDS Naturals, Sequences

CONSTANTS Writers, Cli, \* threads that call api_hal_vcp_tx; one is the CLI
          RxBuffer,  \* API_HAL_VCP_RX_BUFFER_SIZE: 600 in the code
          MaxBatches \* bound on the batches of one call of api_hal_vcp_tx

ASSUME CliAssumption ==
  /\ Cli \in Writers
  /\ RxBuffer \in Nat \ {0} /\ MaxBatches \in Nat \ {0}

VARIABLES
  configured, \* the host has configured the USB device
  txState,    \* hcdc->TxState: a transfer to the host is in flight
  alive, underrun, tx_semaphore, rx_stream, \* ApiHalVcp
  txPc,         \* where each writer is in api_hal_vcp_tx
  left,       \* the batches it still has to send
  line,       \* cli->line holds what somebody typed
  running     \* the CLI thread runs a command

port == <<configured, txState, alive, underrun>>
lineVars == <<line, running>>
cliVars == <<port, tx_semaphore, rx_stream, txPc, left, lineVars>>

Characters == {"text", "return", "ETX"}

CliTypeOK ==
  /\ configured \in BOOLEAN /\ txState \in BOOLEAN
  /\ alive \in BOOLEAN /\ underrun \in BOOLEAN
  /\ line \in BOOLEAN /\ running \in BOOLEAN
  /\ tx_semaphore \in 0..1
  /\ rx_stream \in Seq(Characters \union {"SOH", "EOT"}) /\ Len(rx_stream) <= RxBuffer
  /\ txPc \in [Writers -> {"idle", "check", "acquire", "begin", "copy", "delay"}]
  /\ left \in [Writers -> 0..MaxBatches]

CliInit ==
  /\ configured = FALSE /\ txState = FALSE
  /\ alive = FALSE /\ underrun = FALSE
  /\ tx_semaphore = 1 /\ rx_stream = <<>>
  /\ txPc = [w \in Writers |-> "idle"] /\ left = [w \in Writers |-> 0]
  /\ line = FALSE /\ running = FALSE

-----------------------------------------------------------------------------
(* The faulty variants, named Bad..., are each an operation or a guard with *)
(* one mistake, which one of the properties has to notice.                 *)

(* osSemaphoreRelease of a semaphore with a maximum of one.                *)
BadRelease == tx_semaphore' = tx_semaphore + 1 \* made with a larger maximum
Release == tx_semaphore' = 1

(* xStreamBufferSendFromISR: what does not fit is lost.                    *)
Receive(c) ==
  IF Len(rx_stream) < RxBuffer
  THEN rx_stream' = Append(rx_stream, c) /\ UNCHANGED underrun
  ELSE underrun' = TRUE /\ UNCHANGED rx_stream

(* CDC_Init_FS and CDC_DeInit_FS.                                          *)
Connect ==
  /\ ~configured
  /\ configured' = TRUE /\ txState' = FALSE
  /\ Release
  /\ UNCHANGED <<alive, underrun, rx_stream, txPc, left, lineVars>>

BadDisconnect ==
  /\ configured
  /\ configured' = FALSE /\ txState' = FALSE
  /\ alive' = FALSE
  /\ UNCHANGED tx_semaphore \* who waits for the end of a transfer is forgotten
  /\ UNCHANGED <<underrun, rx_stream, txPc, left, lineVars>>

Disconnect ==
  /\ configured
  /\ configured' = FALSE /\ txState' = FALSE
  /\ alive' = FALSE
  /\ Release
  /\ UNCHANGED <<underrun, rx_stream, txPc, left, lineVars>>

(* _api_hal_vcp_control_line: a terminal is opened or closed.              *)
ControlLine(rts) ==
  /\ configured
  /\ IF alive # rts THEN Receive(IF rts THEN "SOH" ELSE "EOT")
                    ELSE UNCHANGED <<rx_stream, underrun>>
  /\ alive' = rts
  /\ Release
  /\ UNCHANGED <<configured, txState, txPc, left, lineVars>>

(* CDC_Receive_FS: the host sends a character, be the terminal open or not. *)
KeyPressed(c) ==
  /\ configured
  /\ Receive(c)
  /\ UNCHANGED <<configured, txState, alive, tx_semaphore, txPc, left, lineVars>>

BadComplete ==
  /\ configured /\ txState
  /\ txState' = FALSE
  /\ UNCHANGED tx_semaphore \* nobody is told
  /\ UNCHANGED <<configured, alive, underrun, rx_stream, txPc, left, lineVars>>

(* CDC_TransmitCplt_FS: the host has taken the transfer.                   *)
Complete ==
  /\ configured /\ txState
  /\ txState' = FALSE
  /\ Release
  /\ UNCHANGED <<configured, alive, underrun, rx_stream, txPc, left, lineVars>>

-----------------------------------------------------------------------------
(* api_hal_vcp_tx by the writer w.                                         *)
At(w, location) == txPc[w] = location
Goto(w, location) == txPc' = [txPc EXCEPT ![w] = location]
SendBatches(w, n) == Goto(w, "check") /\ left' = [left EXCEPT ![w] = n]

(* A thread that is not the CLI writes: the GUI's screen stream.           *)
Write(w) ==
  /\ w # Cli /\ At(w, "idle")
  /\ \E n \in 1..MaxBatches : SendBatches(w, n)
  /\ UNCHANGED <<port, tx_semaphore, rx_stream, lineVars>>

Check(w) ==
  /\ At(w, "check")
  /\ IF left[w] > 0 /\ alive
     THEN Goto(w, "acquire") /\ UNCHANGED left
     ELSE Goto(w, "idle") /\ left' = [left EXCEPT ![w] = 0]
  /\ UNCHANGED <<port, tx_semaphore, rx_stream, lineVars>>

Acquire(w) ==
  /\ At(w, "acquire") /\ tx_semaphore = 1
  /\ tx_semaphore' = 0
  /\ Goto(w, "begin")
  /\ UNCHANGED <<port, rx_stream, left, lineVars>>

(* CDC_Transmit_FS up to memcpy.  Without a configured device it reads     *)
(* TxState through a null pointer or in freed memory and may find anything. *)
Begin(w) ==
  /\ At(w, "begin")
  /\ \/ (configured => ~txState) /\ Goto(w, "copy")
     \/ (configured => txState) /\ Goto(w, "delay")
  /\ UNCHANGED <<port, tx_semaphore, rx_stream, left, lineVars>>

(* memcpy and USBD_CDC_TransmitPacket, which fails when a transfer is in   *)
(* flight or the device was deconfigured meanwhile.                        *)
Transmit(w) ==
  /\ At(w, "copy")
  /\ IF configured /\ ~txState
     THEN /\ txState' = TRUE
          /\ left' = [left EXCEPT ![w] = @ - 1]
          /\ Goto(w, "check")
     ELSE Goto(w, "delay") /\ UNCHANGED <<txState, left>>
  /\ UNCHANGED <<configured, alive, underrun, tx_semaphore, rx_stream, lineVars>>

Delay(w) ==
  /\ At(w, "delay")
  /\ Goto(w, "check")
  /\ UNCHANGED <<port, tx_semaphore, rx_stream, left, lineVars>>

-----------------------------------------------------------------------------
(* cli_process_input, with the answer to the character it read.            *)
Read(c) ==
  /\ At(Cli, "idle") /\ ~running
  /\ rx_stream # <<>> /\ Head(rx_stream) = c
  /\ rx_stream' = Tail(rx_stream)
  /\ UNCHANGED <<port, tx_semaphore>>

Greet ==
  /\ Read("SOH")
  /\ \E n \in 1..MaxBatches : SendBatches(Cli, n)
  /\ UNCHANGED lineVars

HangUp == Read("EOT") /\ line' = FALSE /\ UNCHANGED <<txPc, left, running>>

Type ==
  /\ Read("text")
  /\ line' = TRUE
  /\ SendBatches(Cli, 1)
  /\ UNCHANGED running

Bell == Read("ETX") /\ SendBatches(Cli, 1) /\ UNCHANGED lineVars

(* cli_enter: only a prompt for an empty line, else the answer to it.      *)
Enter ==
  /\ Read("return")
  /\ SendBatches(Cli, 1)
  /\ running' = line
  /\ UNCHANGED line

(* A command in its callback: it writes, and cli_cmd_interrupt_received    *)
(* takes whatever character comes and forgets it.                          *)
Poll ==
  /\ running /\ At(Cli, "idle")
  /\ rx_stream # <<>>
  /\ rx_stream' = Tail(rx_stream)
  /\ UNCHANGED <<port, tx_semaphore, txPc, left, lineVars>>

(* The command returns: a prompt, and a clean line.                        *)
CommandEnd ==
  /\ running /\ At(Cli, "idle")
  /\ running' = FALSE /\ line' = FALSE
  /\ SendBatches(Cli, 1)
  /\ UNCHANGED <<port, tx_semaphore, rx_stream>>

-----------------------------------------------------------------------------
Usb ==
  \/ Connect \/ Disconnect \/ Complete
  \/ \E rts \in BOOLEAN : ControlLine(rts)
  \/ \E c \in Characters : KeyPressed(c)

Tx(w) == Check(w) \/ Begin(w) \/ Transmit(w) \/ Delay(w)

CliThread == Greet \/ HangUp \/ Type \/ Bell \/ Enter \/ Poll \/ CommandEnd

CliNext ==
  \/ Usb
  \/ \E w \in Writers : Write(w) \/ Tx(w) \/ Acquire(w)
  \/ CliThread

(* The threads are scheduled, and a host that is there takes the transfers *)
(* it was offered.  Nothing is assumed of the user.                        *)
CliFairness ==
  /\ WF_cliVars(Complete)
  /\ \A w \in Writers : WF_cliVars(Tx(w)) /\ SF_cliVars(Acquire(w))

CliSpec == CliInit /\ [][CliNext]_cliVars /\ CliFairness

-----------------------------------------------------------------------------
(* A thread that waits in api_hal_vcp_tx is not forgotten by a configured  *)
(* device: the semaphore is free, or a transfer is in flight whose end     *)
(* frees it, or another thread is on its way to such a transfer.           *)
TxNotStranded ==
  \A w \in Writers :
    At(w, "acquire") /\ configured =>
      \/ tx_semaphore = 1 \/ txState
      \/ \E v \in Writers : txPc[v] \in {"begin", "copy"}

(* No writer sleeps for ever in api_hal_vcp_tx.  While the cable stays, the *)
(* host takes the transfers or the terminal's end wakes the writers; when  *)
(* the cable goes, the one permit that _api_hal_vcp_deinit gives wakes one *)
(* of them, so all calls but one return.                                   *)
WritersWake ==
  /\ <>[]configured => \A w \in Writers : At(w, "acquire") ~> ~At(w, "acquire")
  /\ <>[]~configured =>
       \A w, v \in Writers : w # v => []<>(At(w, "idle") \/ At(v, "idle"))
==============================================================================
