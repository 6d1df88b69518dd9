-------------------------- MODULE InterruptVectors --------------------------
(***************************************************************************)
(* The interrupt vector table of the Kinetis K64F and the interrupts       *)
(* external to its core that lead to a driver.                             *)
(*                                                                         *)
(* A handler is named by the interrupt it was written for.                 *)
(***************************************************************************)
EXTENDS Integers

\* The interrupts with a handler of their own in the table.
DriverInterrupts ==
  ({"DMA"} \X (0 .. 15)) \cup ({"I2C"} \X (0 .. 1)) \cup ({"UART_RX_TX"} \X (0 .. 5))
    \cup ({"PORT"} \X {"A", "B", "C", "D", "E"})
    \cup ({"DMA_Error", "LLWU", "RTC", "RTC_Seconds"} \X {0})

\* The third I2C bus has a handler too, but the table does not name it.
I2C2 == <<"I2C", 2>>

\* The other entries of the table.
UnusedInterrupts ==
  ({"MCM", "FTFE", "Read_Collision", "LVD_LVW", "WDOG_EWM", "RNG", "UART0_LON", "CMT",
    "PDB", "USB", "USBDCD", "Reserved71", "MCG", "LPTMR", "SWI", "SDHC",
    "ENET_1588_Timer", "ENET_Transmit", "ENET_Receive", "ENET_Error"} \X {0})
    \cup ({"SPI", "CMP"} \X (0 .. 2)) \cup ({"I2S_Tx", "I2S_Rx"} \X {0})
    \cup ({"UART_ERR"} \X (0 .. 5)) \cup ({"ADC", "DAC"} \X (0 .. 1))
    \cup ({"FTM", "PIT"} \X (0 .. 3))
    \cup ({"CAN_Message", "CAN_Bus_Off", "CAN_Error", "CAN_Tx_Warning", "CAN_Rx_Warning",
           "CAN_Wake_Up"} \X {0})

IRQn == DriverInterrupts \cup {I2C2} \cup UnusedInterrupts

unexpected_irq_handler == <<"unexpected", 0>>

\* Mutant: two neighbours of the table are exchanged.
TableSwapsPorts ==
  [irq \in IRQn |-> CASE irq \in DriverInterrupts \ {<<"PORT", "C">>} -> irq
                      [] irq = <<"PORT", "C">> -> <<"PORT", "D">>
                      [] irq = I2C2 -> <<"I2C", 0>>
                      [] irq \in UnusedInterrupts -> unexpected_irq_handler]

g_interrupt_vector_table ==
  [irq \in IRQn |-> CASE irq \in DriverInterrupts -> irq
                      [] irq = I2C2 -> <<"I2C", 0>>
                      [] irq \in UnusedInterrupts -> unexpected_irq_handler]

=============================================================================
