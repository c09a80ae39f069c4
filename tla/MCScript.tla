------------------------------ MODULE MCScript ------------------------------
(***************************************************************************)
(* The scripts evaluated: the templates with every short witness, and      *)
(* scripts whose verdict follows from the meaning of their opcodes.        *)
(***************************************************************************)
EXTENDS Integers, SequencesExt

CONSTANTS MaxStack, MaxOps, MaxWitness, MaxKeys, NumLimit, WideLimit, Threshold

VARIABLE machine

NoCases == {}
M == INSTANCE ScriptMachine WITH Cases <- NoCases

secret == M!Raw(1)
keys == <<M!Key(1), M!Key(2), M!Key(3)>>
Signed(k) == M!Sig(k, M!ThisSpend)
Replayed == M!Sig(1, 7)
One == M!Number(1)
Zero == M!Number(0)

Witnesses(items, n) == UNION { [1..k -> items] : k \in 0..n }

Clocks == { [height |-> 29, mtp |-> 150], [height |-> 30, mtp |-> 149] }
Now == [height |-> 30, mtp |-> 150]

Case(script, witness, clock, may) ==
  [script |-> script, witness |-> witness, height |-> clock.height,
   mtp |-> clock.mtp, may |-> may]

Items == {Zero, One, M!NegativeZero, secret, M!Raw(2), Signed(1), Signed(2), Replayed}

Hashlocks ==
  { Case(M!hashlockScript(secret), w, Now, M!MayHashlock(w, secret)) :
      w \in Witnesses(Items, 1) }
  \cup { Case(M!hashlockSigScript(secret, keys[1]), w, Now,
              M!MayHashlockSig(w, secret, keys[1])) : w \in Witnesses(Items, 2) }

Htlcs ==
  { Case(M!htlcScript(secret, keys[1], t, keys[2]), w, c,
         M!MayHtlc(w, c.height, c.mtp, secret, keys[1], t, keys[2])) :
      w \in Witnesses(Items, 3), t \in {30, 150}, c \in Clocks }

Multisigs ==
  { Case(M!multisigScript(m, ks), w, Now, Len(ks) <= MaxKeys /\ M!MayMultisig(w, m, ks)) :
      w \in Witnesses({Signed(1), Signed(2), Signed(3), Replayed, Zero}, 3),
      m \in {1, 2}, ks \in {keys, Front(keys), keys \o keys, <<keys[1], keys[2], keys[1]>>} }
  \cup { Case(M!multisigScript(m, keys), <<Signed(1), Signed(2)>>, Now, FALSE) : m \in {0, 4} }

(* P and Q leave the same on top of the stack.                             *)
Law(copy, P, Q) ==
  M!Ops(<<copy>>) \o P \o M!Ops(<<"OP_TOALTSTACK">>) \o Q
    \o M!Ops(<<"OP_FROMALTSTACK", "OP_EQUAL">>)

o(name) == M!Op(name)
n(k) == M!Small(k)
p(k) == M!Push(M!Number(k))

UnaryLaws == {
  <<<<o("OP_ABS")>>, <<o("OP_DUP"), o("OP_NEGATE"), o("OP_MAX")>>>>,
  <<<<o("OP_0NOTEQUAL")>>, <<o("OP_NOT"), o("OP_NOT")>>>>,
  <<<<o("OP_1ADD")>>, <<n(1), o("OP_ADD")>>>>,
  <<<<o("OP_1SUB")>>, <<n(1), o("OP_SUB")>>>>,
  <<<<p(-1), n(2), o("OP_WITHIN")>>,
    <<o("OP_DUP"), p(-1), o("OP_GREATERTHANOREQUAL"), o("OP_SWAP"), n(2),
      o("OP_LESSTHAN"), o("OP_BOOLAND")>>>>}

BinaryLaws == {
  <<M!Ops(<<"OP_2DUP", "OP_MIN", "OP_TOALTSTACK", "OP_MAX", "OP_FROMALTSTACK", "OP_ADD">>),
    <<o("OP_ADD")>>>>,
  <<<<o("OP_SUB")>>, M!Ops(<<"OP_NEGATE", "OP_ADD">>)>>,
  <<<<o("OP_BOOLOR")>>, M!Ops(<<"OP_NOT", "OP_SWAP", "OP_NOT", "OP_BOOLAND", "OP_NOT">>)>>,
  <<<<o("OP_NUMNOTEQUAL")>>, M!Ops(<<"OP_NUMEQUAL", "OP_NOT">>)>>,
  <<<<o("OP_LESSTHAN")>>, M!Ops(<<"OP_SWAP", "OP_GREATERTHAN">>)>>,
  <<<<o("OP_LESSTHANOREQUAL")>>, M!Ops(<<"OP_GREATERTHAN", "OP_NOT">>)>>,
  <<M!Ops(<<"OP_TUCK", "OP_SUB", "OP_SUB">>), M!Ops(<<"OP_SWAP", "OP_OVER", "OP_SUB", "OP_SUB">>)>>,
  <<M!Ops(<<"OP_OVER", "OP_SUB", "OP_ADD">>), <<n(1), o("OP_PICK"), o("OP_SUB"), o("OP_ADD")>>>>,
  <<<<n(3), o("OP_ROT"), o("OP_SUB"), o("OP_SUB")>>,
    <<n(3), n(2), o("OP_ROLL"), o("OP_SUB"), o("OP_SUB")>>>>}

StackLaws == {
  <<<<o("OP_NIP")>>, M!Ops(<<"OP_SWAP", "OP_DROP">>)>>,
  <<M!Ops(<<"OP_HASH256", "OP_NIP">>), M!Ops(<<"OP_NIP", "OP_SHA256", "OP_SHA256">>)>>,
  <<M!Ops(<<"OP_RIPEMD160", "OP_DROP", "OP_HASH160">>),
    M!Ops(<<"OP_DROP", "OP_HASH160">>)>>,
  <<M!Ops(<<"OP_EQUAL">>), M!Ops(<<"OP_SWAP", "OP_EQUAL">>)>>}

Operands == {M!Number(k) : k \in -2..2} \cup {M!NegativeZero, secret}
IsNum(item) == M!IsNumber(item, NumLimit)

Laws ==
  { Case(Law("OP_DUP", l[1], l[2]), <<x>>, Now, IsNum(x)) : l \in UnaryLaws, x \in Operands }
  \cup { Case(Law("OP_2DUP", l[1], l[2]), <<x, y>>, Now, IsNum(x) /\ IsNum(y)) :
           l \in BinaryLaws, x \in Operands, y \in Operands }
  \cup { Case(Law("OP_2DUP", l[1], l[2]), <<x, y>>, Now, TRUE) :
           l \in StackLaws, x \in Operands, y \in Operands }

Nops(k) == [i \in 1..k |-> o("OP_NOP")]
Pushes(k) == [i \in 1..k |-> p(1)]
Stash(k) == [i \in 1..k |-> o("OP_TOALTSTACK")]

(* Limits, the structure of IF, and opcodes with an effect of their own.   *)
Limits ==
  { Case(Nops(k) \o <<n(1)>>, <<>>, Now, k + 1 <= MaxOps) : k \in {0, MaxOps - 1, MaxOps} }
  \cup { Case(<<p(0), o("OP_IF")>> \o Nops(MaxOps + 2) \o <<o("OP_UNKNOWN"), o("OP_ENDIF"), n(1)>>,
              <<>>, Now, TRUE) }
  \cup { Case(Pushes(k) \o Stash(Min({k, 2})) \o Pushes(j), <<>>, Now,
              k <= MaxStack /\ k + j <= MaxStack /\ j > 0) :
           k \in {2, MaxStack, MaxStack + 1}, j \in {1, MaxStack - 2, MaxStack - 1} }
  \cup { Case(<<n(1)>>, [i \in 1..k |-> One], Now, k <= MaxWitness) :
           k \in {MaxWitness, MaxWitness + 1} }
  \cup { Case(<<n(1)>>, <<M!Huge>>, Now, FALSE), Case(<<M!Push(M!Huge), n(1)>>, <<>>, Now, FALSE),
         Case(<<n(1), o("TRUNCATED")>>, <<>>, Now, FALSE), Case(<<>>, <<>>, Now, FALSE),
         Case(<<p(0), o("OP_IF"), o("TRUNCATED")>>, <<>>, Now, FALSE) }

Branches ==
  { Case(s, <<One, x>>, Now, may) :
      x \in {Zero, M!NegativeZero, One, secret},
      s \in {<<o("OP_IF"), n(1)>>, <<o("OP_ELSE")>>, <<o("OP_ENDIF")>>}, may \in {FALSE} }
  \cup { Case(<<o("OP_IF"), p(0), o("OP_IF"), p(0), o("OP_ELSE"), n(1), o("OP_ENDIF"),
                o("OP_ELSE"), p(0), o("OP_IF"), n(1), o("OP_ELSE"), p(0), o("OP_ENDIF"), o("OP_ENDIF")>>,
              <<x>>, Now, M!Truthy(x)) : x \in {Zero, M!NegativeZero, One, secret} }
  \cup { Case(<<o("OP_IFDUP"), o("OP_DEPTH"), n(2), o("OP_NUMEQUAL")>>, <<x>>, Now, M!Truthy(x)) :
           x \in Operands }
  \cup { Case(<<o("OP_SIZE"), n(8), o("OP_NUMEQUALVERIFY"), o("OP_VERIFY"), n(1)>>, <<x>>, Now,
              x = secret) : x \in Operands }
  \cup { Case(<<M!Push(keys[1]), o("OP_CHECKSIGVERIFY"), n(1)>>, <<x>>, Now, x = Signed(1)) : x \in Items }
  \cup { Case(<<o("OP_CHECKLOCKTIMEVERIFY"), o("OP_DROP"), n(1)>>, <<x>>, Now,
              x \in {M!Number(0), M!Number(1), M!Number(30), M!Number(150)}) :
           x \in {M!Number(k) : k \in {-1, 0, 1, 30, 31, 150, 151, WideLimit + 1}} \cup {secret} }
  \cup { Case(<<x>>, <<>>, Now, FALSE) :
           x \in {o(name) : name \in DOMAIN M!Arity
                    \cup {"OP_PICK", "OP_ROLL", "OP_CHECKMULTISIG", "OP_TOALTSTACK",
                          "OP_FROMALTSTACK", "OP_UNKNOWN"}} }

MCCases == Hashlocks \cup Htlcs \cup Multisigs \cup Laws \cup Limits \cup Branches
=============================================================================
