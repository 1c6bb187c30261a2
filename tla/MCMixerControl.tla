--------------------------- MODULE MCMixerControl ----------------------------
(***************************************************************************)
(* A small instance of MixerControl: a card with two analog ports and a    *)
(* digital one under another profile, a portless (bluetooth) card, and a   *)
(* network sink.                                                           *)
(***************************************************************************)
EXTENDS MixerControl

CONSTANTS pci, bt, analog, digital, a2dp, off, speaker, headphones, hdmi,
          pci_analog, pci_hdmi, bt_sink, net_sink

MCNames == {pci_analog, pci_hdmi, bt_sink, net_sink}
MCCards == {pci, bt}
MCInternalCards == {pci}
MCPorts == {speaker, headphones, hdmi}
MCProfiles == {analog, digital, a2dp, off}
MCCardProfiles == [c \in MCCards |-> IF c = pci THEN {analog, digital} ELSE {a2dp, off}]
MCProfileSinks == [p \in MCProfiles |->
  CASE p = analog -> {pci_analog} [] p = digital -> {pci_hdmi}
    [] p = a2dp -> {bt_sink} [] OTHER -> {}]
MCSinkPorts == [n \in MCNames |->
  CASE n = pci_analog -> {speaker, headphones} [] n = pci_hdmi -> {hdmi} [] OTHER -> {}]
MCNetworkNames == {net_sink}
=============================================================================
