-------------------------------- MODULE Board --------------------------------
(***************************************************************************)
(* How the K210 board is brought up, from the registers that the boot      *)
(* loader leaves behind, one action per call of main() that touches them,  *)
(* and the rates that SPI and UART drivers set afterwards.                 *)
(***************************************************************************)
EXTENDS Fpioa, Sysctl

CONSTANTS
  SpiRates,   \* rates asked of spi_set_clk_rate()
  Bauds       \* rates asked of uart_set_baud()

Harts == {0, 1}
Irqs == 0 .. 64
None == "none"

VARIABLES
  stage,    \* calls of main() that are done
  stale,    \* what the boot loader left: a pin, its function, bits of words
  io,       \* the pins (fpioa->io)
  w,        \* the words of the system controller
  act,      \* actions[] of irq.c
  men,      \* PLIC enable words of the harts
  cs,       \* output enable and value of the chip select of the flash
  majors,   \* devices[]
  baudr,    \* divisor of the SPI controllers
  hz,       \* last rate asked of each
  udiv,     \* divisor latches of UART1
  baud      \* last rate asked of it

bvars == <<stage, stale, io, w, act, men, cs, majors>>
rvars == <<baudr, hz, udiv, baud>>
-----------------------------------------------------------------------------
(* What the boot loader leaves: PLL0 at 780 MHz feeding ACLK, UARTHS on    *)
(* its pins and GPIOHS0 on the pin of SPI1_D1, some other pin with a       *)
(* function the board needs elsewhere, and enabled sources on both harts.  *)
Left == [pin : {0, 47}, func : {RESV0, SPI0_D0, UART1_RX}, ones : BOOLEAN,
         irqs : {{}, {34}}]
BootWords(ones) ==
  LET all == [r \in Regs |-> IF ones /\ r \in {"clk_th1", "clk_th5"} THEN 0 .. 31 ELSE {}]
  IN Put(Put(Put(all, Field("pll0", "clkf"), 29), Field("clk_sel0", "aclk_sel"), 1),
         Field("clk_sel0", "APB0"), 1)
BootPins(s) ==
  LET p == [i \in Pins |-> SetFunctionRaw(RESV0)] IN
  SetFunction(SetFunction(SetFunction(SetFunction(p, 4, UARTHS_RX), 5, UARTHS_TX),
                          16, GPIOHS0), s.pin, s.func)

Init ==
  /\ stage = 0 /\ stale \in Left
  /\ io = BootPins(stale) /\ w = BootWords(stale.ones)
  /\ act = [i \in Irqs |-> None] /\ men = [h \in Harts |-> stale.irqs]
  /\ cs = [out |-> FALSE, high |-> FALSE] /\ majors = {}
  /\ baudr = <<0, 0>> /\ hz = <<0, 0>> /\ udiv = <<0, 0, 0>> /\ baud = 0
-----------------------------------------------------------------------------
(* irq_register(): records the action and arms the source on every hart. *)
Actions(regs) == [i \in Irqs |-> IF i \in DOMAIN regs THEN regs[i] ELSE act[i]]
Enables(regs) == [h \in Harts |-> men[h] \cup DOMAIN regs]
Register(regs) == act' = Actions(regs) /\ men' = Enables(regs)
Call(n) == stage = n /\ stage' = n + 1

(* plicinithart(), called by hart 0 only *)
PlicInitHart ==
  /\ Call(0) /\ men' = [men EXCEPT ![0] = {}]
  /\ UNCHANGED <<stale, io, w, act, cs, majors, rvars>>

(* consoleinit(), uarthsinit() *)
ConsoleInit ==
  /\ Call(1) /\ Register(33 :> "uarths") /\ majors' = majors \cup {1}
  /\ UNCHANGED <<stale, io, w, cs, rvars>>

(* statsinit(), kbufdev_init(), eagerdev_init() *)
SoftDevices ==
  /\ Call(2) /\ majors' = majors \cup {2, 6, 7}
  /\ UNCHANGED <<stale, io, w, act, men, cs, rvars>>

FpioaPinInit ==
  /\ Call(3) /\ io' = PinInit(io)
  /\ UNCHANGED <<stale, w, act, men, cs, majors, rvars>>

DmacInit ==
  /\ Call(4) /\ w' = ClockEnable(w, "DMA")
  /\ UNCHANGED <<stale, io, act, men, cs, majors, rvars>>

(* spi_clk_init() and i2c_clk_init() *)
SpiClk(x, c) == SetThreshold(ClockEnable(x, c), c, 0)
I2cClk(x, c) == SetThreshold(ClockEnable(x, c), c, 3)

(* gpiohs_set_drive_mode(8, GPIO_DM_OUTPUT): pull down, output *)
DriveOutput(x, pin) == SetIoPull(x, GetIoByFunction(x, GPIOHS0 + pin), "down")

(* spidev_init() and spi_init(): the chip select, then SPI0 with its DMA   *)
(* channels 0 and 1, and SPI1, whose channels belong to UART1.             *)
SpidevInit ==
  /\ Call(5) /\ majors' = majors \cup {3}
  /\ io' = DriveOutput(io, 8) /\ cs' = [out |-> TRUE, high |-> TRUE]
  /\ w' = SpiClk(SpiClk(w, "SPI0"), "SPI1")
  /\ baudr' = [i \in 1 .. 2 |-> IF baudr[i] = 0 THEN 64 ELSE baudr[i]]
  /\ Register(1 :> "spi0" @@ 2 :> "spi1" @@ 27 :> "spi_dma" @@ 28 :> "spi_dma")
  /\ UNCHANGED <<stale, hz, udiv, baud>>

(* i2cdev_init() and i2c_init(): I2C0 with channels 2 and 3, and I2C1 *)
I2cdevInit ==
  /\ Call(6) /\ majors' = majors \cup {4}
  /\ w' = I2cClk(I2cClk(w, "I2C0"), "I2C1")
  /\ Register(8 :> "i2c0" @@ 9 :> "i2c1" @@ 29 :> "i2c_dma" @@ 30 :> "i2c_dma")
  /\ UNCHANGED <<stale, io, cs, rvars>>

(* sdcarddev_init(), oledfbdev_init() *)
CardDevices ==
  /\ Call(7) /\ majors' = majors \cup {5, 8}
  /\ UNCHANGED <<stale, io, w, act, men, cs, rvars>>

(* uart_set_divisor(): DLH, DLL and DLF are bytes. *)
Divisor(freq, b) ==
  LET div == freq \div b
      dlh == (div \div 4096) % 256
      dll == ((div - dlh * 4096) \div 16) % 256
  IN <<dlh, dll, (div - dlh * 4096 - dll * 16) % 256>>

(* uartdev_init(), uart_init() *)
UartdevInit ==
  /\ Call(8) /\ majors' = majors \cup {9}
  /\ w' = Reset(ClockEnable(w, "UART1"), "UART1")
  /\ LET p == SetFunction(SetFunction(io, 7, UART1_TX), 8, UART1_RX)
     IN io' = [p EXCEPT ![8].on = @ \cup {"pu"}]
  /\ baud' = 115200 /\ udiv' = Divisor(GetFreq(w', "APB0"), 115200)
  /\ Register(11 :> "uart1" @@ 31 :> "uart_dma_tx" @@ 32 :> "uart_dma_rx")
  /\ UNCHANGED <<stale, cs, baudr, hz>>

(* disk_init(): the interrupt of channel 0 becomes the one of the disk. *)
DiskInit ==
  /\ Call(9) /\ Register(27 :> "disk")
  /\ UNCHANGED <<stale, io, w, cs, majors, rvars>>

Up == stage = 10
-----------------------------------------------------------------------------
(* spi_set_clk_rate(): an even divisor, at least 2, of 16 bits *)
SpiDivisor(in, h) ==
  LET d == (in + h - 1) \div h
      two == IF d < 2 THEN 2 ELSE d
      even == two + (two % 2)
  IN IF even > 65534 THEN 65534 ELSE even
SpiClock(i) == IF i = 1 THEN "SPI0" ELSE "SPI1"
SpiSetClkRate(i) ==
  /\ Up
  /\ LET in == GetFreq(w, SpiClock(i)) IN
     \E h \in SpiRates :
       /\ hz' = [hz EXCEPT ![i] = h] /\ baudr' = [baudr EXCEPT ![i] = SpiDivisor(in, h)]
  /\ UNCHANGED <<bvars, udiv, baud>>

(* uart_set_baud() *)
UartSetBaud ==
  /\ Up
  /\ LET freq == GetFreq(w, "APB0") IN
     \E b \in Bauds : baud' = b /\ udiv' = Divisor(freq, b)
  /\ UNCHANGED <<bvars, baudr, hz>>

Boot == PlicInitHart \/ ConsoleInit \/ SoftDevices \/ FpioaPinInit \/ DmacInit
        \/ SpidevInit \/ I2cdevInit \/ CardDevices \/ UartdevInit \/ DiskInit
Next ==
  \/ Boot
  \/ \E i \in 1 .. 2 : SpiSetClkRate(i)
  \/ UartSetBaud
-----------------------------------------------------------------------------
(* After boot, whatever the boot loader left: every function of the board  *)
(* is on its pin and on no other, no pin is pulled both ways, the clocks   *)
(* of the controllers and of their buses run, the dividers the drivers set *)
(* read back and the other fields of their words are as before, every      *)
(* registered source is armed on both harts, and hart 0 has no other.      *)
Wired == {PinInitCalls[k] : k \in DOMAIN PinInitCalls} \cup {<<7, UART1_TX>>, <<8, UART1_RX>>}
ClocksUp == {"DMA", "SPI0", "SPI1", "I2C0", "I2C1", "UART1"}
Dividers == [SPI0 |-> 0, SPI1 |-> 0, I2C0 |-> 3, I2C1 |-> 3]
BoardUp == Up =>
  /\ \A x \in Wired : {i \in Pins : io[i].ch_sel = x[2]} = {x[1]}
  /\ \A i \in Pins : ~({"pu", "pd"} \subseteq io[i].on)
  /\ \A x \in Wired : io[x[1]].on \ {"pu", "pd"} = FunctionConfig[x[2]].on \ {"pu", "pd"}
  /\ \A c \in ClocksUp : ClockOn(w, c) /\ \A b \in BusOf(c) : ClockOn(w, b)
  /\ w["peri_reset"] = {}
  /\ LET before == BootWords(stale.ones) IN \A t \in Thresholds :
       GetThreshold(w, t) = IF t \in DOMAIN Dividers THEN Dividers[t] ELSE GetThreshold(before, t)
  /\ \A t \in {"SPI0", "SPI1", "I2C0", "I2C1"} :
       ThresholdField[t] = Field(ThresholdField[t].reg, t)
  /\ \A ch \in 0 .. 5 : DmaField(ch) = Field(DmaField(ch).reg, ch)
  /\ \A h \in Harts, i \in Irqs : act[i] # None => i \in men[h]
  /\ \A i \in men[0] : act[i] # None
  /\ cs = [out |-> TRUE, high |-> TRUE] /\ majors = 1 .. 9

(* The divisors that the drivers program: SPI never runs faster than it    *)
(* was asked to, and no even divisor comes nearer, unless the divisor does *)
(* not fit 16 bits; the latches of UART1 hold the divisor, unless it does  *)
(* not fit their 20 bits.                                                  *)
RatesExact == Up =>
  /\ \A i \in 1 .. 2 : hz[i] # 0 =>
       LET f == GetFreq(w, SpiClock(i)) IN
       /\ baudr[i] % 2 = 0 /\ baudr[i] \in 2 .. 65534
       /\ f \div baudr[i] <= hz[i] \/ baudr[i] = 65534
       /\ baudr[i] > 2 => f > hz[i] * (baudr[i] - 2)
  /\ LET d == GetFreq(w, "APB0") \div baud IN
     d < 2^20 => udiv[1] * 4096 + udiv[2] * 16 + udiv[3] = d /\ udiv[3] < 16

=============================================================================
