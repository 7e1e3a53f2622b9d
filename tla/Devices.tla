------------------------------ MODULE Devices ------------------------------
(***************************************************************************)
(* The registers of pins, serial line and interrupt controller, as the     *)
(* drivers of platform/stm32f4 (gpio.c, usart.c, nvic.c, nvic.h) write     *)
(* them, and the two routines of start-up that use them (irq_init() and    *)
(* dbg_uart_init()).  Pins and interrupts share registers: every driver    *)
(* call rewrites a word that holds the settings of others.  A register is  *)
(* the set of its bits that are 1.                                         *)
(***************************************************************************)
EXTENDS Integers, FiniteSets, FiniteSetsExt, TLC

CONSTANTS PinConfigs,    \* configurations asked for (struct gpio_cfg)
          Interrupts,    \* interrupt sources of the line (USART_IT_...)
          Lines,         \* usart_dev: [u_num, fast, baud, tx, rx, irq]
          Priorities,    \* [irq, group, sub] given to NVIC_SetPriority()
          MaxCalls       \* bound on the driver calls of a behaviour

VARIABLES gpio,     \* [port -> [register -> bits]]
          usart,    \* [offset -> bits] of the line in use
          brr,      \* its rate register
          nvic,     \* enabled and pending: [word -> bits]; group; ip: bytes
          asked,    \* what the callers asked for: pins, sources, priorities, irqs
          calls     \* driver calls so far

devVars == <<gpio, usart, brr, nvic, asked, calls>>

Word32 == 0 .. 31
BitsIn(v) == {b \in 0 .. 7 : (v \div 2^b) % 2 = 1}
ValueOf(bits) == MapThenSumSet(LAMBDA b : 2^b, bits)

\* reg &= ~(mask << at); reg |= v << at
Written(reg, width, at, v) ==
  (reg \ (at .. at + width - 1)) \cup ({b + at : b \in BitsIn(v)} \cap Word32)

-----------------------------------------------------------------------------
(* gpio.c, on the registers g of one port *)

GPIO_MODER_IN == 0
GPIO_MODER_OUT == 1
GPIO_MODER_ALT == 2

gpio_moder(g, pin, type) == [g EXCEPT !.MODER = Written(@, 2, 2 * pin, type)]
gpio_otyper(g, pin, type) == [g EXCEPT !.OTYPER = Written(@, 1, pin, type)]
gpio_ospeedr(g, pin, speed) == [g EXCEPT !.OSPEEDR = Written(@, 2, 2 * pin, speed)]
gpio_pupdr(g, pin, mode) == [g EXCEPT !.PUPDR = Written(@, 2, 2 * pin, mode)]
gpio_afr(g, pin, func) ==
  IF pin < 8 THEN [g EXCEPT !.AFRL = Written(@, 4, 4 * pin, func)]
  ELSE [g EXCEPT !.AFRH = Written(@, 4, 4 * (pin - 8), func)]

gpio_config(g, cfg) ==
  LET mode == gpio_moder(gpio_pupdr(g, cfg.pin, cfg.pupd), cfg.pin, cfg.type)
      func == IF cfg.type = GPIO_MODER_ALT THEN gpio_afr(mode, cfg.pin, cfg.func) ELSE mode
  IN  IF cfg.type = GPIO_MODER_IN THEN mode
      ELSE gpio_ospeedr(gpio_otyper(func, cfg.pin, cfg.o_type), cfg.pin, cfg.speed)

\* gpio_config_output() and gpio_config_input() configure the pin with these.
OutputConfig(cfg) == [cfg EXCEPT !.type = GPIO_MODER_OUT, !.func = 0, !.o_type = 0]
InputConfig(cfg) == [cfg EXCEPT !.type = GPIO_MODER_IN, !.func = 0, !.o_type = 0, !.speed = 0]

gpio_out_high(g, pin) == [g EXCEPT !.ODR = @ \cup {pin}]
gpio_out_low(g, pin) == [g EXCEPT !.ODR = @ \ {pin}]
\* What a pin is set to: each call leaves what it does not mention.
Merged(old, cfg) ==
  LET mode == [old EXCEPT !.pupd = cfg.pupd, !.type = cfg.type]
      func == [mode EXCEPT !.func = IF cfg.type = GPIO_MODER_ALT THEN cfg.func ELSE @]
  IN  IF cfg.type = GPIO_MODER_IN THEN mode
      ELSE [func EXCEPT !.o_type = cfg.o_type, !.speed = cfg.speed]

Configure(cfg) ==
  /\ gpio' = [gpio EXCEPT ![cfg.port] = gpio_config(@, cfg)]
  /\ asked' = [asked EXCEPT !.pins[cfg.port][cfg.pin] = Merged(@, cfg)]
  /\ UNCHANGED <<usart, brr, nvic>>

Drive(port, pin, high) ==
  /\ gpio' = [gpio EXCEPT ![port] = IF high THEN gpio_out_high(@, pin) ELSE gpio_out_low(@, pin)]
  /\ asked' = [asked EXCEPT !.pins[port][pin].out = IF high THEN 1 ELSE 0]
  /\ UNCHANGED <<usart, brr, nvic>>

-----------------------------------------------------------------------------
(* usart.c: a source is the offset of its register and the number of its bit *)

CR1 == 12
CR2 == 16
CR3 == 20
USART_IT_RXNE == CR1 * 256 + 5
USART_IT_CTS == CR3 * 256 + 10

USART_IT_ENB_REG_OFFSET(it) == (it \div 256) % 256
USART_IT_POSITION(it) == it % 256

NoSource(line, it) == it = USART_IT_CTS /\ line.u_num \in {4, 5}

ConfigInterrupt(line, regs, it, on) ==
  IF NoSource(line, it) THEN regs
  ELSE [regs EXCEPT ![USART_IT_ENB_REG_OFFSET(it)] =
          IF on THEN @ \cup {USART_IT_POSITION(it)} ELSE @ \ {USART_IT_POSITION(it)}]

usart_interrupt_status(line, it) ==
  ~NoSource(line, it) /\ USART_IT_POSITION(it) \in usart[USART_IT_ENB_REG_OFFSET(it)]

\* Sixteenths of a bit in a period of the line's clock; mantissa and fraction are
\* 16-bit.
usart_baud(line) ==
  LET clock == IF line.fast THEN 84000000 ELSE 42000000
      mantissa == (clock \div (16 * line.baud)) % 2^16
      fraction == (clock \div line.baud) % 16
  IN  ((mantissa * 16) % 2^16) + fraction

\* UE, RE and TE on, nine bits off; one stop bit.
UsartInit(regs) ==
  [regs EXCEPT ![CR1] = ((@ \cup {13}) \ {12}) \cup {2, 3}, ![CR2] = @ \ {12, 13}]

usart_config_interrupt(line, it, on) ==
  /\ usart' = ConfigInterrupt(line, usart, it, on)
  /\ asked' = [asked EXCEPT !.sources =
                 IF NoSource(line, it) THEN @ ELSE IF on THEN @ \cup {it} ELSE @ \ {it}]
  /\ UNCHANGED <<gpio, brr, nvic>>

-----------------------------------------------------------------------------
(* nvic.c, nvic.h, on the state n of the controller *)

SystemIrqs == {-12, -11, -10, -5, -4, -2, -1}
Irqs == SystemIrqs \cup {l.irq : l \in Lines} \cup {p.irq : p \in Priorities}

\* The byte of an interrupt: exceptions of the processor are below 0.
PriorityByte(irq) == IF irq < 0 THEN <<"SHPR", (irq % 16) - 4>> ELSE <<"IP", irq>>

Groups == 3 .. 7
NVIC_PriorityGroupConfig(n, group) == IF group \in Groups THEN [n EXCEPT !.group = group] ELSE n

\* A bug: the parts are shifted the wrong way round.
NVIC_SetPriority_swap(n, irq, group, sub) ==
  LET sub_shifts == 7 - n.group
      priority == group * 2^sub_shifts + (sub % 2^(4 - sub_shifts))
  IN  [n EXCEPT !.ip[PriorityByte(irq)] = (priority * 16) % 256]
NVIC_SetPriority(n, irq, group, sub) ==
  LET sub_shifts == 7 - n.group
      group_shifts == 4 - sub_shifts
      priority == group * 2^group_shifts + (sub % 2^(4 - sub_shifts))
  IN  [n EXCEPT !.ip[PriorityByte(irq)] = (priority * 16) % 256]

\* Set and clear registers: writing a 1 sets, or clears, that bit alone.
NVIC_EnableIRQ(n, irq) == [n EXCEPT !.on[irq \div 32] = @ \cup {irq % 32}]
NVIC_DisableIRQ(n, irq) == [n EXCEPT !.on[irq \div 32] = @ \ {irq % 32}]
NVIC_SetPendingIRQ(n, irq) == [n EXCEPT !.pending[irq \div 32] = @ \cup {irq % 32}]
NVIC_ClearPendingIRQ(n, irq) == [n EXCEPT !.pending[irq \div 32] = @ \ {irq % 32}]

SetGroup(group) ==
  /\ nvic' = NVIC_PriorityGroupConfig(nvic, group)
  /\ asked' = IF group \in Groups THEN [asked EXCEPT !.priorities = <<>>] ELSE asked
  /\ UNCHANGED <<gpio, usart, brr>>

\* With the priority group of reset the shifts are undefined: a group has been set.
SetPriority(p) ==
  /\ nvic.group \in Groups
  /\ nvic' = NVIC_SetPriority(nvic, p.irq, p.group, p.sub)
  /\ asked' = [asked EXCEPT !.priorities = (p.irq :> <<p.group, p.sub>>) @@ @]
  /\ UNCHANGED <<gpio, usart, brr>>

Switch(irq, how) ==
  /\ nvic' = CASE how = "enable" -> NVIC_EnableIRQ(nvic, irq)
               [] how = "disable" -> NVIC_DisableIRQ(nvic, irq)
               [] how = "pend" -> NVIC_SetPendingIRQ(nvic, irq)
               [] how = "clear" -> NVIC_ClearPendingIRQ(nvic, irq)
  /\ asked' = CASE how = "enable" -> [asked EXCEPT !.on = @ \cup {irq}]
                [] how = "disable" -> [asked EXCEPT !.on = @ \ {irq}]
                [] how = "pend" -> [asked EXCEPT !.pending = @ \cup {irq}]
                [] how = "clear" -> [asked EXCEPT !.pending = @ \ {irq}]
  /\ UNCHANGED <<gpio, usart, brr>>

-----------------------------------------------------------------------------
(* The routines of start-up *)

SystemLevels == (-4 :> 0) @@ (-12 :> 1) @@ (-11 :> 1) @@ (-10 :> 1) @@ (-1 :> 3)
                  @@ (-5 :> 15) @@ (-2 :> 15)

irq_init ==
  /\ nvic' = FoldSet(LAMBDA irq, n : NVIC_SetPriority(n, irq, SystemLevels[irq], 0),
                     NVIC_PriorityGroupConfig(nvic, 3), SystemIrqs)
  /\ asked' = [asked EXCEPT !.priorities = [irq \in SystemIrqs |-> <<SystemLevels[irq], 0>>]]
  /\ UNCHANGED <<gpio, usart, brr>>

\* usart_init(), the receive interrupt, and the interrupt of the line.  (Both pins of a
\* line are on one port.)
dbg_uart_init(line) ==
  /\ nvic.group \in Groups
  /\ gpio' = [gpio EXCEPT ![line.tx.port] = gpio_config(gpio_config(@, line.tx), line.rx)]
  /\ brr' = usart_baud(line)
  /\ usart' = ConfigInterrupt(line, UsartInit(usart), USART_IT_RXNE, TRUE)
  /\ nvic' = NVIC_EnableIRQ(NVIC_ClearPendingIRQ(NVIC_SetPriority(nvic, line.irq, 15, 0),
                                                 line.irq), line.irq)
  /\ asked' = [asked EXCEPT
       !.pins[line.tx.port][line.tx.pin] = Merged(@, line.tx),
       !.pins[line.rx.port][line.rx.pin] = Merged(@, line.rx),
       !.sources = @ \cup {USART_IT_RXNE}, !.line = {line},
       !.priorities = (line.irq :> <<15, 0>>) @@ @,
       !.on = @ \cup {line.irq}, !.pending = @ \ {line.irq}]

-----------------------------------------------------------------------------
Ports == {c.port : c \in PinConfigs} \cup {l.tx.port : l \in Lines}
Pins == {c.pin : c \in PinConfigs} \cup UNION {{l.tx.pin, l.rx.pin} : l \in Lines}
Unset == [pupd |-> 0, type |-> 0, func |-> 0, o_type |-> 0, speed |-> 0, out |-> 0]

devInit ==
  /\ gpio = [p \in Ports |-> [MODER |-> {}, OTYPER |-> {}, OSPEEDR |-> {}, PUPDR |-> {},
                              AFRL |-> {}, AFRH |-> {}, ODR |-> {}]]
  /\ usart = [r \in {CR1, CR2, CR3} |-> {}]
  /\ brr = 0
  /\ nvic = [group |-> 0, ip |-> [s \in {PriorityByte(i) : i \in Irqs} |-> 0],
             on |-> [w \in 0 .. 7 |-> {}], pending |-> [w \in 0 .. 7 |-> {}]]
  /\ asked = [pins |-> [p \in Ports |-> [n \in Pins |-> Unset]], sources |-> {}, line |-> {},
              priorities |-> <<>>, on |-> {}, pending |-> {}]
  /\ calls = 0

Call ==
  \/ \E c \in PinConfigs : Configure(c) \/ Configure(OutputConfig(c)) \/ Configure(InputConfig(c))
  \/ \E c \in PinConfigs, high \in BOOLEAN : Drive(c.port, c.pin, high)
  \/ \E l \in asked.line, it \in Interrupts, on \in BOOLEAN : usart_config_interrupt(l, it, on)
  \/ \E g \in 2 .. 7 : SetGroup(g)
  \/ \E p \in Priorities : SetPriority(p)
  \/ \E p \in Priorities, how \in {"enable", "disable", "pend", "clear"} :
       p.irq >= 0 /\ Switch(p.irq, how)
  \/ irq_init
  \/ asked.line = {} /\ \E l \in Lines : dbg_uart_init(l)

devNext == calls < MaxCalls /\ calls' = calls + 1 /\ Call

-----------------------------------------------------------------------------
Field(bits, width, at) == ValueOf({b - at : b \in bits \cap (at .. at + width - 1)})

PinAsAsked(g, n, want) ==
  /\ Field(g.MODER, 2, 2 * n) = want.type /\ Field(g.PUPDR, 2, 2 * n) = want.pupd
  /\ Field(g.OTYPER, 1, n) = want.o_type /\ Field(g.OSPEEDR, 2, 2 * n) = want.speed
  /\ Field(IF n < 8 THEN g.AFRL ELSE g.AFRH, 4, 4 * (n % 8)) = want.func
  /\ (n \in g.ODR) = (want.out = 1)

LineAsAsked(line) ==
  /\ {2, 3, 13} \subseteq usart[CR1] /\ 12 \notin usart[CR1]
  /\ LET clock == IF line.fast THEN 84000000 ELSE 42000000
     IN  brr * line.baud <= clock /\ clock < (brr + 1) * line.baud
  /\ \A it \in Interrupts : usart_interrupt_status(line, it) = (it \in asked.sources)

\* With g bits for the level: what the processor compares, then what breaks ties.
LevelAsAsked(irq) ==
  LET g == 7 - nvic.group
      p == nvic.ip[PriorityByte(irq)] \div 16
      want == asked.priorities[irq]
  IN  want[1] < 2^g => p \div 2^(4 - g) = want[1] /\ p % 2^(4 - g) = want[2] % 2^(4 - g)

Numbers32(words) == UNION {{32 * w + b : b \in words[w]} : w \in DOMAIN words}

\* Whatever the order of the calls, each register field is what the last call about
\* its pin, source or interrupt asked for: no read-modify-write disturbs a neighbour,
\* the line runs at the rate asked for, and an exception has the preemption level
\* given to it (nothing else keeps SVCall, PendSV and the line from preempting each
\* other).
RegistersAsAsked ==
  /\ \A p \in Ports, n \in Pins : PinAsAsked(gpio[p], n, asked.pins[p][n])
  /\ \A line \in asked.line : LineAsAsked(line)
  /\ \A irq \in DOMAIN asked.priorities : LevelAsAsked(irq)
  /\ Numbers32(nvic.on) = asked.on /\ Numbers32(nvic.pending) = asked.pending
=============================================================================
