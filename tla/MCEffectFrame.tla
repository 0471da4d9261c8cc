---- MODULE MCEffectFrame ----
(* EffectFrame for TLC: levels in which a projectile has an effect of a type that others *)
(* have too, one that ends or one that does not, with a looped sound or without.         *)
EXTENDS EffectFrame
CONSTANTS e1, w1
MCTypes == {"snd", "spray", "light"}
MCDatas == Clients \cup {Shot}
Effect(type, ends) == [type |-> type, ends |-> ends]
Level(sound, effect, explosion) ==
  [c \in {<<w1, 0>>, <<w1, 1>>, e1} |->
     CASE c = <<w1, 0>> -> sound [] c = <<w1, 1>> -> effect [] OTHER -> explosion]
MCKinds ==
  {Level(Effect("snd", FALSE), Effect("spray", TRUE), Effect("spray", TRUE)),
   Level(Effect("light", FALSE), Effect("snd", TRUE), Effect("spray", TRUE)),
   Level(Effect("snd", FALSE), Effect("spray", FALSE), Effect("spray", TRUE))}
====
