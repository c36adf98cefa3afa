----------------------------- MODULE MCDw3000Host -----------------------------
(* The configurations a build can choose, with a preamble that keeps them   *)
(* below 256 symbols and one that does not (there the operating parameters  *)
(* change); those of the programs without STS and with nothing else; and    *)
(* one with the highest code that has gain tables.                          *)
EXTENDS Dw3000Host

MCConfigs == {c \in ConfigOptions : c.plen \in {128, 512}}
               \cup {config_option_sp0, config_option_sp3,
                     Config(5, 128, 24, "6M8", "OFF", 64)}
=============================================================================
