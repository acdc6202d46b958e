-------------------------------- MODULE Fpioa --------------------------------
(***************************************************************************)
(* The pin multiplexer of the K210 (kernel/driver/fpioa.c).  A pin holds   *)
(* one of 256 functions; a row of function_config[] says how a pin is set  *)
(* up for a function: its driving strength and the bits that are 1.        *)
(***************************************************************************)
EXTENDS Integers, Sequences, TLC

NumIo == 48
Pins == 0 .. NumIo - 1
Functions == 0 .. 255
Bits == {"oe_en", "oe_inv", "do_sel", "do_inv", "pu", "pd", "sl",
         "ie_en", "ie_inv", "di_inv", "st"}
Config == [ch_sel : Functions, ds : 0 .. 15, on : SUBSET Bits]

(* The kinds of rows in the table *)
Row(ds, on) == [ds |-> ds, on |-> on]
Input  == Row(0, {"ie_en", "st"})
Output == Row(15, {"oe_en"})
Both   == Row(15, {"oe_en", "ie_en", "st"})
Data   == Row(15, {"oe_en", "oe_inv", "ie_en", "ie_inv", "st"})
Bus    == Row(0, {"oe_en", "ie_en", "pu", "sl", "st"})
Unset  == Row(0, {})
Rows(fs, r) == [f \in fs |-> r]

(* The functions that the drivers put on pins *)
SPI0_D0 == 4
SPI0_D1 == 5
SPI0_SS3 == 15
SPI0_SCLK == 17
UARTHS_RX == 18
UARTHS_TX == 19
GPIOHS0 == 24
UART1_RX == 64
UART1_TX == 65
SPI1_D0 == 70
SPI1_D1 == 71
SPI1_SCLK == 83
RESV0 == 120
I2C0_SCLK == 126
I2C0_SDA == 127
I2C1_SCLK == 128
I2C1_SDA == 129
-----------------------------------------------------------------------------
(* function_config[], one definition per peripheral *)
JtagRows == Rows(0 .. 2, Input) @@ Rows({3}, Output)
Spi0DataRows == Rows(4 .. 11, Data)
Spi0CtlRows == Rows(12 .. 15, Output) @@ Rows({16}, Input) @@ Rows({17}, Output)
UarthsRows == Rows({18}, Input) @@ Rows({19}, Output) @@ Rows(20 .. 21, Input)
              @@ Rows(22 .. 23, Output)
GpiohsRows == Rows(24 .. 55, Both)
GpioRows == Rows(56 .. 63, Both)
UartRows == Rows({64, 66, 68}, Input) @@ Rows({65, 67, 69}, Output)
Spi1DataRows == Rows(70 .. 77, Data)
Spi1CtlRows == Rows(78 .. 81, Output) @@ Rows({82}, Input) @@ Rows({83}, Output)
SpiSlaveRows == Rows({84}, Data) @@ Rows(85 .. 86, Input)
I2s0ClkInRows == Rows(87 .. 89, Output) @@ Rows(90 .. 93, Input)
I2s0OutRows == Rows(94 .. 97, Output)
I2s1ClkInRows == Rows(98 .. 100, Output) @@ Rows(101 .. 104, Input)
I2s1OutRows == Rows(105 .. 108, Output)
I2s2ClkInRows == Rows(109 .. 111, Output) @@ Rows(112 .. 115, Input)
I2s2OutRows == Rows(116 .. 119, Output)
ResvRows == Rows(120 .. 125, Unset)
I2cRows == Rows(126 .. 131, Bus)
CmosCtlRows == Rows(132 .. 134, Output) @@ Rows(135 .. 137, Input)
CmosDataRows == Rows(138 .. 145, Input)
SccbRows == Rows(146 .. 147, [Bus EXCEPT !.on = @ \cup {"oe_inv"}])
Uart1InRows == Rows(148 .. 152, Input)
Uart1OutRows == Rows(153 .. 161, Output)
Uart2InRows == Rows(162 .. 166, Input)
Uart2OutRows == Rows(167 .. 175, Output)
Uart3InRows == Rows(176 .. 180, Input)
Uart3OutRows == Rows(181 .. 189, Output)
TimerRows == Rows(190 .. 201, Output)
ClkRows == Rows(202 .. 203, Output)
InternalOutRows == Rows(204 .. 212, Output)
InternalInRows ==
  Rows(213 .. 216, Input) @@ Rows({217}, Row(0, {"ie_en", "pu", "st"}))
  @@ Rows({218}, Row(15, {"oe_en", "ie_en", "pu", "sl", "st"}))
  @@ Rows(219 .. 221, Input) @@ Rows({222}, Unset) @@ Rows({223}, Input)
DebugRows == Rows(224 .. 255, Output)

FunctionConfig ==
  JtagRows @@ Spi0DataRows @@ Spi0CtlRows @@ UarthsRows @@ GpiohsRows @@ GpioRows
  @@ UartRows @@ Spi1DataRows @@ Spi1CtlRows @@ SpiSlaveRows @@ I2s0ClkInRows
  @@ I2s0OutRows @@ I2s1ClkInRows @@ I2s1OutRows @@ I2s2ClkInRows @@ I2s2OutRows
  @@ ResvRows @@ I2cRows @@ CmosCtlRows @@ CmosDataRows @@ SccbRows @@ Uart1InRows
  @@ Uart1OutRows @@ Uart2InRows @@ Uart2OutRows @@ Uart3InRows @@ Uart3OutRows
  @@ TimerRows @@ ClkRows @@ InternalOutRows @@ InternalInRows @@ DebugRows
-----------------------------------------------------------------------------
(* fpioa_set_function_raw(): the register of a pin for function f.  The    *)
(* tie bits of the table are not applied.                                  *)
SetFunctionRaw(f) ==
  [ch_sel |-> f, ds |-> FunctionConfig[f].ds, on |-> FunctionConfig[f].on]

(* Mutant: another pin that holds f keeps it. *)
SetFunction_KeepsOld(io, n, f) == [io EXCEPT ![n] = SetFunctionRaw(f)]

(* fpioa_set_function(): every other pin that holds f loses it. *)
SetFunction(io, n, f) ==
  IF n \notin Pins \/ f \notin Functions THEN io
  ELSE LET losers == {i \in Pins : f # RESV0 /\ io[i].ch_sel = f} IN
       [i \in Pins |-> IF i = n THEN SetFunctionRaw(f)
                       ELSE IF i \in losers THEN SetFunctionRaw(RESV0) ELSE io[i]]

(* fpioa_set_io_pull() *)
PullBits == [none |-> {}, down |-> {"pd"}, up |-> {"pu"}]
SetIoPull(io, n, pull) ==
  IF n \notin Pins THEN io
  ELSE [io EXCEPT ![n].on = (@ \ {"pu", "pd"}) \cup PullBits[pull]]

(* fpioa_get_io_by_function(): the first pin that holds f, or -1. *)
GetIoByFunction(io, f) ==
  LET S == {i \in Pins : io[i].ch_sel = f} IN
  IF S = {} THEN -1 ELSE CHOOSE i \in S : \A j \in S : i <= j

(* fpioa_pin_init(): the wiring of the board, in the order of the calls. *)
PinInitCalls ==
  << <<27, SPI0_SCLK>>, <<28, SPI0_D0>>, <<26, SPI0_D1>>, <<29, SPI0_SS3>>,
     <<30, I2C0_SCLK>>, <<31, I2C0_SDA>>, <<32, I2C1_SCLK>>, <<33, I2C1_SDA>>,
     <<15, SPI1_D0>>, <<16, SPI1_D1>>, <<17, SPI1_SCLK>>, <<18, GPIOHS0 + 8>> >>

PinInit(io) ==
  LET after[k \in 0 .. Len(PinInitCalls)] ==
        IF k = 0 THEN io
        ELSE SetFunction(after[k - 1], PinInitCalls[k][1], PinInitCalls[k][2])
  IN after[Len(PinInitCalls)]
=============================================================================
