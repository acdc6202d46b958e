------------------------------- MODULE Sysctl --------------------------------
(***************************************************************************)
(* The system controller of the K210 (kernel/driver/sysctl.c, sysctl.h):   *)
(* clock enables, dividers, the clock tree, resets and the routing of      *)
(* requests to DMA channels.  A register is the set of its bits that are   *)
(* 1; "w" is the register file.  The drivers reach fields through two      *)
(* paths: the structs of sysctl.h, and shifts and masks on whole words.    *)
(***************************************************************************)
EXTENDS Integers, Sequences, FiniteSetsExt

-----------------------------------------------------------------------------
(* The structs of sysctl.h: the fields of a register, lowest bit first.    *)
Ones(names) == [i \in 1 .. Len(names) |-> <<names[i], 1>>]

PllFields == << <<"clkr", 4>>, <<"clkf", 6>>, <<"clkod", 4>>, <<"bwadj", 6>> >>
             \o Ones(<<"reset", "pwrd", "intfb", "bypass", "test", "out_en">>)
Pll2Fields == PllFields \o << <<"ckin_sel", 2>> >>
ClkSel0 == << <<"aclk_sel", 1>>, <<"ACLK", 2>>, <<"APB0", 3>>, <<"APB1", 3>>, <<"APB2", 3>> >>
           \o Ones(<<"SPI3", "TIMER0", "TIMER1", "TIMER2">>)
ClkEnCent == Ones(<<"CPU", "SRAM0", "SRAM1", "APB0", "APB1", "APB2">>)
ClkEnPeri ==
  Ones(<<"ROM", "DMA", "AI", "DVP", "FFT", "GPIO", "SPI0", "SPI1", "SPI2", "SPI3",
         "I2S0", "I2S1", "I2S2", "I2C0", "I2C1", "I2C2", "UART1", "UART2", "UART3",
         "AES", "FPIOA", "TIMER0", "TIMER1", "TIMER2", "WDT0", "WDT1", "SHA", "OTP",
         "-", "RTC">>)
PeriReset ==
  Ones(<<"ROM", "DMA", "AI", "DVP", "FFT", "GPIO", "SPI0", "SPI1", "SPI2", "SPI3",
         "I2S0", "I2S1", "I2S2", "I2C0", "I2C1", "I2C2", "UART1", "UART2", "UART3",
         "AES", "FPIOA", "TIMER0", "TIMER1", "TIMER2", "WDT0", "WDT1", "SHA",
         "-", "-", "RTC">>)
SoftReset == Ones(<<"SOC">>)
ClkTh0 == << <<"SRAM0", 4>>, <<"SRAM1", 4>>, <<"AI", 4>>, <<"DVP", 4>>, <<"ROM", 4>> >>
ClkTh1 == << <<"SPI0", 8>>, <<"SPI1", 8>>, <<"SPI2", 8>>, <<"SPI3", 8>> >>
ClkTh2 == << <<"TIMER0", 8>>, <<"TIMER1", 8>>, <<"TIMER2", 8>> >>
ClkTh3 == << <<"I2S0", 16>>, <<"I2S1", 16>> >>
ClkTh4 == << <<"I2S2", 16>>, <<"I2S0_M", 8>>, <<"I2S1_M", 8>> >>
ClkTh5 == << <<"I2S2_M", 8>>, <<"I2C0", 8>>, <<"I2C1", 8>>, <<"I2C2", 8>> >>
ClkTh6 == << <<"WDT0", 8>>, <<"WDT1", 8>> >>
DmaSel0 == << <<0, 6>>, <<1, 6>>, <<2, 6>>, <<3, 6>>, <<4, 6>> >>
DmaSel1 == << <<5, 6>> >>

Layout ==
  [pll0 |-> PllFields, pll1 |-> PllFields, pll2 |-> Pll2Fields, clk_sel0 |-> ClkSel0,
   clk_en_cent |-> ClkEnCent, clk_en_peri |-> ClkEnPeri, peri_reset |-> PeriReset,
   soft_reset |-> SoftReset,
   clk_th0 |-> ClkTh0, clk_th1 |-> ClkTh1, clk_th2 |-> ClkTh2, clk_th3 |-> ClkTh3,
   clk_th4 |-> ClkTh4, clk_th5 |-> ClkTh5, clk_th6 |-> ClkTh6,
   dma_sel0 |-> DmaSel0, dma_sel1 |-> DmaSel1]
Regs == DOMAIN Layout

(* Where the structs put their fields *)
Named(r) == {Layout[r][k][1] : k \in 1 .. Len(Layout[r])}
Place(r, f) ==
  LET L == Layout[r]
      i == CHOOSE k \in 1 .. Len(L) : L[k][1] = f
  IN [reg |-> r, lo |-> MapThenSumSet(LAMBDA k : L[k][2], 1 .. i - 1), width |-> L[i][2]]
Places == [r \in Regs |-> [f \in Named(r) |-> Place(r, f)]]
Field(r, f) == Places[r][f]
-----------------------------------------------------------------------------
BitsOf(v, n) == {b \in 0 .. n - 1 : (v \div 2^b) % 2 = 1}
Value(S) == SumSet({2^b : b \in S})

(* CLK_TH_SET_FIELD and CLK_TH_FIELD, and what the compiler does to write  *)
(* or read a field of a struct                                             *)
Put(w, fd, v) ==
  [w EXCEPT ![fd.reg] = (@ \ (fd.lo .. fd.lo + fd.width - 1))
                         \cup {fd.lo + b : b \in BitsOf(v, fd.width)}]
Get(w, fd) == Value({b \in 0 .. fd.width - 1 : fd.lo + b \in w[fd.reg]})
-----------------------------------------------------------------------------
(* sysctl_clock_set_threshold(), sysctl_clock_get_threshold(): the shifts  *)
(* and widths written in sysctl.c.                                         *)
FieldAt(reg, lo, width) == [reg |-> reg, lo |-> lo, width |-> width]
ThresholdField ==
  [ACLK |-> Field("clk_sel0", "ACLK"), APB0 |-> Field("clk_sel0", "APB0"),
   APB1 |-> Field("clk_sel0", "APB1"), APB2 |-> Field("clk_sel0", "APB2"),
   SRAM0 |-> Field("clk_th0", "SRAM0"), SRAM1 |-> Field("clk_th0", "SRAM1"),
   AI |-> Field("clk_th0", "AI"), DVP |-> Field("clk_th0", "DVP"),
   ROM |-> Field("clk_th0", "ROM"),
   SPI0 |-> FieldAt("clk_th1", 0, 8), SPI1 |-> FieldAt("clk_th1", 8, 8),
   SPI2 |-> FieldAt("clk_th1", 16, 8), SPI3 |-> FieldAt("clk_th1", 24, 8),
   TIMER0 |-> FieldAt("clk_th2", 0, 8), TIMER1 |-> FieldAt("clk_th2", 8, 8),
   TIMER2 |-> FieldAt("clk_th2", 16, 8),
   I2S0_M |-> FieldAt("clk_th4", 16, 8), I2S1_M |-> FieldAt("clk_th4", 24, 8),
   I2S2_M |-> FieldAt("clk_th5", 0, 8), I2C0 |-> FieldAt("clk_th5", 8, 8),
   I2C1 |-> FieldAt("clk_th5", 16, 8), I2C2 |-> FieldAt("clk_th5", 24, 8),
   WDT0 |-> FieldAt("clk_th6", 0, 8), WDT1 |-> FieldAt("clk_th6", 8, 8),
   I2S0 |-> FieldAt("clk_th3", 0, 16), I2S1 |-> FieldAt("clk_th3", 16, 16),
   I2S2 |-> FieldAt("clk_th4", 0, 16)]
Thresholds == DOMAIN ThresholdField
SetThreshold(w, t, v) == Put(w, ThresholdField[t], v)
GetThreshold(w, t) == Get(w, ThresholdField[t])

(* sysctl_clock_enable(): first the bus of the clock, then the clock. *)
BusOf(c) ==
  CASE c \in {"GPIO", "SPI2", "I2S0", "I2S1", "I2S2", "I2C0", "I2C1", "I2C2", "UART1",
              "UART2", "UART3", "FPIOA", "TIMER0", "TIMER1", "TIMER2", "SHA"} -> {"APB0"}
    [] c \in {"AES", "WDT0", "WDT1", "OTP", "RTC"} -> {"APB1"}
    [] c \in {"SPI0", "SPI1"} -> {"APB2"}
    [] OTHER -> {}
EnableField(c) ==
  IF c \in {"PLL0", "PLL1", "PLL2"}
  THEN Field([PLL0 |-> "pll0", PLL1 |-> "pll1", PLL2 |-> "pll2"][c], "out_en")
  ELSE Field(IF c \in Named("clk_en_cent") THEN "clk_en_cent" ELSE "clk_en_peri", c)
EnableDevice(w, c) == Put(w, EnableField(c), 1)
ClockEnable(w, c) == EnableDevice(FoldSet(LAMBDA b, u : EnableDevice(u, b), w, BusOf(c)), c)
ClockOn(w, c) == Get(w, EnableField(c)) = 1

(* sysctl_reset(): asserted, held and released *)
ResetCtl(w, r, v) == Put(w, Field(IF r = "SOC" THEN "soft_reset" ELSE "peri_reset", r), v)
Reset(w, r) == ResetCtl(ResetCtl(w, r, 1), r, 0)
-----------------------------------------------------------------------------
(* The clock tree: sysctl_clock_get_freq() *)
FreqIn0 == 26000000

PllFreq(w, pll) ==
  LET N(f) == Get(w, Field(pll, f)) + 1
      sel == Get(w, Field("pll2", "ckin_sel"))
      in == IF pll # "pll2" \/ sel = 0 THEN FreqIn0
            ELSE IF sel \in {1, 2}
            THEN LET p == IF sel = 1 THEN "pll0" ELSE "pll1"
                     M(f) == Get(w, Field(p, f)) + 1
                 IN ((FreqIn0 * M("clkf")) \div M("clkr")) \div M("clkod")
            ELSE 0
  IN ((in * N("clkf")) \div N("clkr")) \div N("clkod")

(* Clocks that are those of a bus *)
OnBus(c) ==
  CASE c \in {"GPIO", "UART1", "UART2", "UART3", "FPIOA", "SHA"} -> "APB0"
    [] c \in {"AES", "OTP"} -> "APB1"
    [] OTHER -> c

(* What a clock is divided from *)
Selected(w, c) == IF Get(w, Field("clk_sel0", c)) = 0 THEN "in0" ELSE "pll0"
SourceOf(w, c) ==
  CASE c \in {"IN0", "RTC", "WDT0", "WDT1"} -> "in0"
    [] c \in {"PLL0", "SPI0", "SPI1", "SPI2", "I2C0", "I2C1", "I2C2"} -> "pll0"
    [] c \in {"PLL1", "AI"} -> "pll1"
    [] c \in {"PLL2", "I2S0", "I2S1", "I2S2"} -> "pll2"
    [] c \in {"SPI3", "TIMER0", "TIMER1", "TIMER2"} -> Selected(w, c)
    [] OTHER -> "aclk"
SourceFreq(w, s) ==
  IF s = "in0" \/ (s = "aclk" /\ Get(w, Field("clk_sel0", "aclk_sel")) = 0) THEN FreqIn0
  ELSE PllFreq(w, IF s = "aclk" THEN "pll0" ELSE s)
       \div (IF s = "aclk" THEN 2^(GetThreshold(w, "ACLK") + 1) ELSE 1)

(* Dividers by the threshold and 1, and by twice that *)
Once == {"SRAM0", "SRAM1", "ROM", "DVP", "APB0", "APB1", "APB2", "AI"}
Twice == {"I2S0", "I2S1", "I2S2", "WDT0", "WDT1", "SPI0", "SPI1", "SPI2", "SPI3",
          "I2C0", "I2C1", "I2C2", "TIMER0", "TIMER1", "TIMER2"}
Divided(w, c) ==
  SourceFreq(w, SourceOf(w, c))
    \div (IF c \in Once \cup Twice
          THEN (GetThreshold(w, c) + 1) * (IF c \in Twice THEN 2 ELSE 1) ELSE 1)

Clocks == Once \cup Twice \cup {"IN0", "RTC", "PLL0", "PLL1", "PLL2", "CPU", "DMA", "FFT", "ACLK", "HCLK"}
GetFreq(w, c) == LET d == OnBus(c) IN IF d \in Clocks THEN Divided(w, d) ELSE 0
-----------------------------------------------------------------------------
(* sysctl_dma_select(): the new words, given the words that were read. *)
DmaField(ch) == IF ch = 5 THEN FieldAt("dma_sel1", 0, 6) ELSE FieldAt("dma_sel0", 6 * ch, 6)
DmaSelect_Clears(words, ch, sel) ==  \* Mutant: the other fields of the word are lost
  Put([r \in DOMAIN words |-> {}], DmaField(ch), sel)
DmaSelect(words, ch, sel) == Put(words, DmaField(ch), sel)
DmaSelected(w, ch) == Get(w, DmaField(ch))
(* The requests of the peripherals, in the order of sysctl_dma_select_t *)
DmaRequests ==
  <<"SSI0_RX", "SSI0_TX", "SSI1_RX", "SSI1_TX", "SSI2_RX", "SSI2_TX", "SSI3_RX", "SSI3_TX",
    "I2C0_RX", "I2C0_TX", "I2C1_RX", "I2C1_TX", "I2C2_RX", "I2C2_TX",
    "UART1_RX", "UART1_TX", "UART2_RX", "UART2_TX", "UART3_RX", "UART3_TX",
    "AES", "SHA_RX", "AI_RX", "FFT_RX", "FFT_TX",
    "I2S0_TX", "I2S0_RX", "I2S1_TX", "I2S1_RX", "I2S2_TX", "I2S2_RX",
    "I2S0_BF_DIR", "I2S0_BF_VOICE">>
Request(name) == (CHOOSE k \in DOMAIN DmaRequests : DmaRequests[k] = name) - 1
=============================================================================
